---- MODULE Spec2Model ----
(***************************************************************************)
(* LittleVSX: a self-hosted VS Code extension gallery.                     *)
(*                                                                         *)
(* The model covers the persisted catalog (the SQLite table `extensions`), *)
(* the package directory and the rewritten-asset directory on disk, the    *)
(* `download` and `delete` commands, and the HTTP server (router, CORS     *)
(* middleware and the five route handlers).                                *)
(*                                                                         *)
(* A Go string is a sequence of one-character strings, so that the code's  *)
(* concatenations, prefix tests and LIKE matches are computed and not      *)
(* assumed; <<>> is Go's "".  Values the code only compares (asset-type    *)
(* tokens, messages, header values) are TLA+ strings.  A Go nil pointer is *)
(* the record Nil.  A handler that panics leaves no response on the wire   *)
(* (net/http recovers the panic and closes the connection); a command that *)
(* panics ends the process.                                                *)
(***************************************************************************)
EXTENDS Integers, Sequences, FiniteSets, TLC

VARIABLES
    config,   \* the loaded configuration (unnamed/part_003 GetConfig)
    db,       \* rows of table `extensions` whose ids the model names
    bulk,     \* number of further rows of the table (ids outside the model)
    vsix,     \* package files on disk: set of [path, data]
    assets,   \* rewritten-asset files: the set of their paths
    out,      \* outcome of the last command, when a command acted last
    resp      \* the last response, when the server acted last

vars == <<config, db, bulk, vsix, assets, out, resp>>

Nil == [nil |-> TRUE]

-----------------------------------------------------------------------------
(* Strings *)

\* fmt.Sprintf("%s.%s", publisher, name)
ExtID(publisher, name) == publisher \o <<".">> \o name

\* filepath.Join on clean relative paths.
Join(a, b) == a \o <<"/">> \o b

UpperCase == <<"A","B","C","D","E","F","G","H","I","J","K","L","M",
               "N","O","P","Q","R","S","T","U","V","W","X","Y","Z">>
LowerCase == <<"a","b","c","d","e","f","g","h","i","j","k","l","m",
               "n","o","p","q","r","s","t","u","v","w","x","y","z">>

\* ASCII case folding of one character (strings.ToLower, SQLite's LIKE).
LowerChar(c) ==
    IF \E i \in 1..26 : UpperCase[i] = c
    THEN LowerCase[CHOOSE i \in 1..26 : UpperCase[i] = c]
    ELSE c

\* strings.ToLower
ToLower(s) == [i \in 1..Len(s) |-> LowerChar(s[i])]

\* strings.HasPrefix, strings.HasSuffix, strings.Contains
HasPrefix(s, p) == Len(s) >= Len(p) /\ SubSeq(s, 1, Len(p)) = p
HasSuffix(s, p) == Len(s) >= Len(p) /\ SubSeq(s, Len(s) - Len(p) + 1, Len(s)) = p
Contains(s, sub) ==
    \E i \in 1..(Len(s) - Len(sub) + 1) : SubSeq(s, i, i + Len(sub) - 1) = sub

RECURSIVE LikeMatch(_, _)
\* SQLite's LIKE: % matches any run of characters, _ any one character,
\* every other character itself, ignoring ASCII case.
LikeMatch(pattern, text) ==
    IF pattern = <<>> THEN text = <<>>
    ELSE IF Head(pattern) = "%"
         THEN \/ LikeMatch(Tail(pattern), text)
              \/ (text # <<>> /\ LikeMatch(pattern, Tail(text)))
    ELSE IF text = <<>> THEN FALSE
    ELSE /\ (Head(pattern) = "_" \/ LowerChar(Head(pattern)) = LowerChar(Head(text)))
         /\ LikeMatch(Tail(pattern), Tail(text))

RECURSIVE LastIndexOf(_, _)
\* The position of the last occurrence of character c in s, 0 if none.
LastIndexOf(s, c) ==
    IF s = <<>> THEN 0
    ELSE IF s[Len(s)] = c THEN Len(s)
    ELSE LastIndexOf(SubSeq(s, 1, Len(s) - 1), c)

\* filepath.Base on a path without a trailing separator ("/" itself excepted).
Base(path) ==
    IF path = <<>> THEN <<".">>
    ELSE IF path = <<"/">> THEN <<"/">>
    ELSE SubSeq(path, LastIndexOf(path, "/") + 1, Len(path))

-----------------------------------------------------------------------------
(* Configuration *)

\* The shipped configuration file (relative paths cleaned as filepath.Join
\* cleans them).
ConfigYaml ==
    [ExtensionsDir |-> <<"d","a","t","a","/","e","x","t","e","n","s","i","o","n","s">>,
     AssetsDir |-> <<"d","a","t","a","/","a","s","s","e","t","s">>,
     BaseURL |-> <<"h","t","t","p","s",":","/","/","d","o","m","a","i","n",":","8","0","8","0">>]

\* The configuration the README documents.
ConfigReadme ==
    [ExtensionsDir |-> <<"e","x","t","e","n","s","i","o","n","s">>,
     AssetsDir |-> <<"e","x","t","e","n","s","i","o","n","s","/","a","s","s","e","t","s">>,
     BaseURL |-> <<"h","t","t","p","s",":","/","/","d","o","m","a","i","n",":","8","0","8","0">>]

Configs == {ConfigYaml, ConfigReadme}

-----------------------------------------------------------------------------
(* Program constants and model bounds *)

maxExtensionsLimit == 10000
maxSearchLimit == 1000

\* The table starts either without further rows or with
\* maxExtensionsLimit - 1 + BulkSlack rows whose ids the model does not name.
BulkSlack == 1

-----------------------------------------------------------------------------
(* Upstream registries and the archives they serve *)

\* A readme is a sequence of segments: plain text, a markdown image
\* reference ![alt](url) or a markdown link [text](url) with a text that is
\* not empty.  The empty sequence is the empty string.
Text(t) == [seg |-> "text", text |-> t]
MdImage(alt, url) == [seg |-> "mdimg", alt |-> alt, url |-> url]
MdLink(text, url) == [seg |-> "mdlink", alt |-> text, url |-> url]

RemoteImg == <<"h","t","t","p",":","/","/","x","/","i","m","g",".","p","n","g">>

packageJSONPath == <<"e","x","t","e","n","s","i","o","n","/","p","a","c","k","a","g","e",".","j","s","o","n">>
packageNLSPath == <<"e","x","t","e","n","s","i","o","n","/","p","a","c","k","a","g","e",".","n","l","s",".","j","s","o","n">>
vsixManifestPath == <<"e","x","t","e","n","s","i","o","n",".","v","s","i","x","m","a","n","i","f","e","s","t">>
readmePath == <<"e","x","t","e","n","s","i","o","n","/","R","E","A","D","M","E",".","m","d">>
licensePath == <<"e","x","t","e","n","s","i","o","n","/","L","I","C","E","N","S","E",".","m","d">>

\* The conventional readme locations, in the order the code lists them.
readmePaths ==
    <<readmePath,
      <<"e","x","t","e","n","s","i","o","n","/","r","e","a","d","m","e",".","m","d">>,
      <<"e","x","t","e","n","s","i","o","n","/","R","E","A","D","M","E">>,
      <<"e","x","t","e","n","s","i","o","n","/","r","e","a","d","m","e">>,
      <<"R","E","A","D","M","E",".","m","d">>,
      <<"r","e","a","d","m","e",".","m","d">>,
      <<"R","E","A","D","M","E">>,
      <<"r","e","a","d","m","e">> >>

\* The packages upstream serves.  The package directory and the download
\* link hold a package's key; Archive gives the zip behind it: its file
\* table in archive order, each entry with its name and its content.  The
\* content of extension/package.json is the parsed manifest, the content of
\* extension/package.nls.json its key/value pairs, the content of a readme
\* its segments.
PkgKeys == {"X1", "X2", "Y1"}

\* Further packages upstream holds, of extensions the server's requests do
\* not name: one whose publisher and name have upper-case letters and which
\* has a readme-named file ahead of its extension/README.md, one
\* without a manifest, one whose manifest does not parse, and one with a
\* placeholder the localization table has no entry for next to a plain
\* description that is spelled like a key of the table.
AllPkgKeys == PkgKeys \cup {"Z1", "B1", "B2", "L1"}

Entry(name, body) == [name |-> name, body |-> body]

Manifest(publisher, name, version, displayName, description, icon, license) ==
    [parses |-> TRUE, Publisher |-> publisher, Name |-> name, Version |-> version,
     DisplayName |-> displayName, Description |-> description,
     Icon |-> icon, License |-> license]

Archive(key) ==
    CASE key = "X1" ->
           <<Entry(vsixManifestPath, "xml"),
             Entry(packageJSONPath,
                   Manifest(<<"p">>, <<"x">>, <<"1">>, <<"X">>, <<"d">>,
                            <<"i","c","o","n",".","p","n","g">>, <<"M","I","T">>)),
             Entry(readmePath, <<Text(<<"h","i">>), MdImage(<<"a">>, RemoteImg)>>),
             Entry(licensePath, "license"),
             Entry(<<"e","x","t","e","n","s","i","o","n","/","i","c","o","n",".","p","n","g">>, "png")>>
      [] key = "X2" ->
           <<Entry(packageJSONPath,
                   Manifest(<<"p">>, <<"x">>, <<"2">>, <<"X","2">>, <<>>, <<>>, <<>>))>>
      [] key = "Y1" ->
           <<Entry(packageJSONPath,
                   Manifest(<<"p">>, <<"y">>, <<"1">>, <<"%","n","%">>, <<"d">>, <<>>, <<>>)),
             Entry(packageNLSPath, <<[key |-> <<"n">>, value |-> <<"Y">>]>>),
             Entry(readmePath, <<Text(<<"h","i">>)>>)>>
      [] key = "Z1" ->
           <<Entry(packageJSONPath,
                   Manifest(<<"P">>, <<"Z">>, <<"1">>, <<"Z">>, <<"d">>, <<>>, <<>>)),
             Entry(<<"e","x","t","e","n","s","i","o","n","/","d","o","c","s","/",
                     "r","e","a","d","m","e",".","t","x","t">>, <<Text(<<"n","o">>)>>),
             Entry(readmePath, <<Text(<<"h","i">>)>>)>>
      [] key = "B1" ->
           <<Entry(readmePath, <<Text(<<"h","i">>)>>)>>
      [] key = "B2" ->
           <<Entry(packageJSONPath,
                   [Manifest(<<>>, <<>>, <<>>, <<>>, <<>>, <<>>, <<>>)
                       EXCEPT !.parses = FALSE])>>
      [] key = "L1" ->
           <<Entry(packageJSONPath,
                   Manifest(<<"p">>, <<"l">>, <<"1">>, <<"%","m","%">>, <<"n">>, <<>>, <<>>)),
             Entry(packageNLSPath, <<[key |-> <<"n">>, value |-> <<"Y">>]>>)>>

\* What a download leaves on disk when copying the body fails part-way.
Truncated == "truncated"

\* The listing an upstream registry holds for a package: the fields its
\* query API reports.  extensionId is the opaque id of the Microsoft gallery.
Listing(key) ==
    CASE key = "X1" -> [publisher |-> <<"p">>, name |-> <<"x">>, version |-> <<"1">>,
                        displayName |-> <<"X">>, extensionId |-> <<"g","x">>]
      [] key = "X2" -> [publisher |-> <<"p">>, name |-> <<"x">>, version |-> <<"2">>,
                        displayName |-> <<"X","2">>, extensionId |-> <<"g","x">>]
      [] key = "Y1" -> [publisher |-> <<"p">>, name |-> <<"y">>, version |-> <<"1">>,
                        displayName |-> <<"Y">>, extensionId |-> <<"g","y">>]
      [] key = "Z1" -> [publisher |-> <<"P">>, name |-> <<"Z">>, version |-> <<"1">>,
                        displayName |-> <<"Z">>, extensionId |-> <<"g","z">>]
      [] key = "B1" -> [publisher |-> <<"p">>, name |-> <<"b">>, version |-> <<"1">>,
                        displayName |-> <<"B">>, extensionId |-> <<"g","b">>]
      [] key = "B2" -> [publisher |-> <<"p">>, name |-> <<"c">>, version |-> <<"1">>,
                        displayName |-> <<"C">>, extensionId |-> <<"g","c">>]
      [] key = "L1" -> [publisher |-> <<"p">>, name |-> <<"l">>, version |-> <<"1">>,
                        displayName |-> <<"L">>, extensionId |-> <<"g","l">>]

MarketplaceTypes == {"microsoft", "open-vsx"}

\* The identifiers the commands and requests of the model name.
IdX == ExtID(<<"p">>, <<"x">>)
IdY == ExtID(<<"p">>, <<"y">>)
IdNone == ExtID(<<"p">>, <<"n">>)

-----------------------------------------------------------------------------
(* Storage: table `extensions` (database package) *)

\* A plain INSERT into a table without the primary key: the fault that
\* would let a second ingestion add a row.
InsertExtension(rows, row) == rows \cup {row}

\* An upsert that updates the row it finds but leaves its readme column.
UpsertExtensionKeepingReadme(rows, row) ==
    {r \in rows : r.ID # row.ID}
      \cup {[row EXCEPT !.ReadmeContent = r.ReadmeContent] : r \in {q \in rows : q.ID = row.ID}}
      \cup (IF \E r \in rows : r.ID = row.ID THEN {} ELSE {row})

\* INSERT OR REPLACE: the row with the same primary key is removed, then the
\* new row is inserted with every column taken from `row`.
UpsertExtension(rows, row) == {r \in rows : r.ID # row.ID} \cup {row}

\* SELECT * FROM extensions WHERE id = ?; sql.ErrNoRows gives (nil, nil).
GetExtensionByID(rows, id) ==
    IF \E r \in rows : r.ID = id
    THEN CHOOSE r \in rows : r.ID = id
    ELSE Nil

\* Number of rows a LIMIT/OFFSET query returns out of `total` matching rows.
PageSize(total, page, limit) ==
    LET offset == (page - 1) * limit
        left == IF total > offset THEN total - offset ELSE 0
    IN IF left > limit THEN limit ELSE left

\* The results a LIMIT/OFFSET query can give over the named rows `named` and
\* `others` further rows.  Column last_updated is not modelled: ORDER BY
\* last_updated DESC decides only which rows the LIMIT cuts, so every choice
\* of the right size is a possible result.
Pages(named, others, page, limit) ==
    LET n == PageSize(Cardinality(named) + others, page, limit)
    IN {[rows |-> S, others |-> n - Cardinality(S)] :
            S \in {T \in SUBSET named :
                     /\ n - Cardinality(T) >= 0
                     /\ n - Cardinality(T) <= others}}

\* SELECT * FROM extensions ORDER BY last_updated DESC LIMIT ? OFFSET ?
GetAllExtensions(rows, others, page, limit) == Pages(rows, others, page, limit)

\* WHERE name LIKE ? OR display_name LIKE ? OR description LIKE ? OR
\* publisher LIKE ?, with the pattern "%" + query + "%".  The rows the model
\* does not name carry no text of the model's alphabet and never match.
SearchMatches(row, query) ==
    LET searchPattern == <<"%">> \o query \o <<"%">>
    IN \/ LikeMatch(searchPattern, row.Name)
       \/ LikeMatch(searchPattern, row.DisplayName)
       \/ LikeMatch(searchPattern, row.Description)
       \/ LikeMatch(searchPattern, row.Publisher)

SearchExtensions(rows, query, page, limit) ==
    Pages({r \in rows : SearchMatches(r, query)}, 0, page, limit)

\* DELETE FROM extensions WHERE id = ?
\* DELETE FROM extensions without the WHERE clause: the fault of a delete that
\* takes every record with it.
DeleteAllExtensions(rows, id) == {}

DeleteExtensionRow(rows, id) == {r \in rows : r.ID # id}

\* ToDBExtension: the columns of a record (the JSON-encoded slice columns and
\* the cosmetic columns are left out of the model).
ToDBExtension(ext) ==
    [ID |-> ext.ID, Name |-> ext.Name, DisplayName |-> ext.DisplayName,
     Description |-> ext.Description, Version |-> ext.Version,
     Publisher |-> ext.Publisher, Icon |-> ext.Icon, License |-> ext.License,
     FilePath |-> ext.FilePath, ReadmeContent |-> ext.ReadmeContent]

\* ToExtension dereferences its argument: on a nil row it panics.
ToExtension(dbExt) ==
    IF dbExt = Nil THEN [panic |-> TRUE]
    ELSE [panic |-> FALSE,
          ID |-> dbExt.ID, Name |-> dbExt.Name, DisplayName |-> dbExt.DisplayName,
          Description |-> dbExt.Description, Version |-> dbExt.Version,
          Publisher |-> dbExt.Publisher, Icon |-> dbExt.Icon,
          License |-> dbExt.License, FilePath |-> dbExt.FilePath,
          ReadmeContent |-> dbExt.ReadmeContent]

-----------------------------------------------------------------------------
(* Manager (extensions package) *)

\* Manager.GetByID: the storage layer reports no error for a missing row, so
\* the nil row reaches ToExtension.
GetByID(rows, id) ==
    LET dbExt == GetExtensionByID(rows, id)
        ext == ToExtension(dbExt)
    IN IF ext.panic THEN [panic |-> TRUE]
       ELSE [panic |-> FALSE, ext |-> ext, found |-> TRUE]

\* GetAll asking for the page size of Search: the fault of a wrong limit.
GetAllWithSearchLimit(rows, others) == GetAllExtensions(rows, others, 1, maxSearchLimit)

\* Manager.GetAll: the possible results.
GetAll(rows, others) == GetAllExtensions(rows, others, 1, maxExtensionsLimit)

\* Manager.Search: the possible results.
Search(rows, query) == SearchExtensions(rows, query, 1, maxSearchLimit)

\* Manager.GetExtensionsDir
GetExtensionsDir(cfg) == cfg.ExtensionsDir

-----------------------------------------------------------------------------
(* Files on disk *)

\* os.Stat(path) succeeds
FileExists(disk, path) == \E f \in disk : f.path = path

\* os.Create + io.Copy: the file at path now holds data
WriteFile(disk, path, data) == {f \in disk : f.path # path} \cup {[path |-> path, data |-> data]}

\* os.Remove
RemoveFile(disk, path) == {f \in disk : f.path # path}

\* zip.OpenReader: fails on a missing file and on one that is not an archive.
OpenReader(disk, path) ==
    IF \E f \in disk : f.path = path /\ f.data \in AllPkgKeys
    THEN LET key == (CHOOSE f \in disk : f.path = path).data
         IN [err |-> FALSE, key |-> key, File |-> Archive(key)]
    ELSE [err |-> TRUE, key |-> "", File |-> <<>>]

\* The first entry of the file table with the given name: the loop
\* `for _, file := range reader.File { if file.Name == name {...} }`.
FirstNamed(File, name) ==
    IF \E i \in 1..Len(File) : File[i].name = name
    THEN LET i == CHOOSE j \in 1..Len(File) :
                      /\ File[j].name = name
                      /\ \A k \in 1..(j - 1) : File[k].name # name
         IN [found |-> TRUE, body |-> File[i].body]
    ELSE [found |-> FALSE, body |-> Nil]

-----------------------------------------------------------------------------
(* Reading a package (Manager.ReadExtensionInfo) *)

readPackageJSON(File) ==
    LET e == FirstNamed(File, packageJSONPath)
    IN [err |-> ~e.found, packageJSON |-> e.body]

\* A parse that reports no error.
parsePackageJSONWithoutError(packageJSON) ==
    [err |-> FALSE, pkg |-> packageJSON]

parsePackageJSON(packageJSON) ==
    [err |-> ~packageJSON.parses, pkg |-> packageJSON]

\* readNLSData: nil when the archive has no localization table.
readNLSData(File) ==
    LET e == FirstNamed(File, packageNLSPath)
    IN [nil |-> ~e.found, nls |-> e.body]

\* nls[key] of a Go map: "" for a missing key.
NLSLookup(nls, key) ==
    IF \E i \in 1..Len(nls) : nls[i].key = key
    THEN nls[CHOOSE i \in 1..Len(nls) : nls[i].key = key].value
    ELSE <<>>

RECURSIVE TrimLeft(_, _)
TrimLeft(s, c) == IF s # <<>> /\ Head(s) = c THEN TrimLeft(Tail(s), c) ELSE s

RECURSIVE TrimRight(_, _)
TrimRight(s, c) ==
    IF s # <<>> /\ s[Len(s)] = c THEN TrimRight(SubSeq(s, 1, Len(s) - 1), c) ELSE s

\* strings.Trim(s, c) for a one-character cutset
Trim(s, c) == TrimRight(TrimLeft(s, c), c)

replaceLocalizedStrings(pkg, nls) ==
    LET dn == NLSLookup(nls, Trim(pkg.DisplayName, "%"))
        ds == NLSLookup(nls, Trim(pkg.Description, "%"))
    IN [pkg EXCEPT !.DisplayName = IF dn # <<>> THEN dn ELSE @,
                   !.Description = IF ds # <<>> THEN ds ELSE @]

processLocalization(File, pkg) ==
    IF ~Contains(pkg.DisplayName, <<"%">>) /\ ~Contains(pkg.Description, <<"%">>)
    THEN pkg
    ELSE LET nlsData == readNLSData(File)
         IN IF nlsData.nil THEN pkg ELSE replaceLocalizedStrings(pkg, nlsData.nls)

isReadmeFile(name) ==
    LET lower == ToLower(name)
    IN /\ Contains(lower, <<"r","e","a","d","m","e">>)
       /\ \/ HasSuffix(lower, <<".","m","d">>)
          \/ HasSuffix(lower, <<".","t","x","t">>)
          \/ ~Contains(name, <<".">>)

\* The readme among the entries of an archive: the content of the first
\* entry, in archive order, that is at a conventional readme location or
\* looks like a readme; "" if none.
FirstReadme(File) ==
    LET IsReadme(file) == \/ \E i \in 1..Len(readmePaths) : file.name = readmePaths[i]
                          \/ isReadmeFile(file.name)
        hits == {i \in 1..Len(File) : IsReadme(File[i])}
    IN IF hits = {} THEN <<>>
       ELSE File[CHOOSE i \in hits : \A k \in hits : i <= k].body

\* What reading the archive with a given key yields; an archive is read the
\* same way wherever it is stored, so the result is tabulated by key.
Unpacked ==
    [key \in AllPkgKeys |->
        LET File == Archive(key)
            packageJSON == readPackageJSON(File)
            parsed == parsePackageJSON(packageJSON.packageJSON)
        IN IF packageJSON.err \/ parsed.err
           THEN [err |-> TRUE, pkg |-> Nil, readme |-> <<>>]
           ELSE [err |-> FALSE, pkg |-> processLocalization(File, parsed.pkg),
                 readme |-> FirstReadme(File)]]

\* readReadmeFromVSIX opens the package again: "" when it cannot be opened.
readReadmeFromVSIX(disk, filePath) ==
    LET reader == OpenReader(disk, filePath)
    IN IF reader.err THEN <<>> ELSE Unpacked[reader.key].readme

\* createExtension folding the case of the identifier.
createExtensionLowerCaseID(disk, pkg, filePath) ==
    [ID |-> ToLower(ExtID(pkg.Publisher, pkg.Name)),
     Name |-> pkg.Name, DisplayName |-> pkg.DisplayName,
     Description |-> pkg.Description, Version |-> pkg.Version,
     Publisher |-> pkg.Publisher, Icon |-> pkg.Icon, License |-> pkg.License,
     FilePath |-> filePath,
     ReadmeContent |-> readReadmeFromVSIX(disk, filePath)]

createExtension(disk, pkg, filePath) ==
    [ID |-> ExtID(pkg.Publisher, pkg.Name),
     Name |-> pkg.Name, DisplayName |-> pkg.DisplayName,
     Description |-> pkg.Description, Version |-> pkg.Version,
     Publisher |-> pkg.Publisher, Icon |-> pkg.Icon, License |-> pkg.License,
     FilePath |-> filePath,
     ReadmeContent |-> readReadmeFromVSIX(disk, filePath)]

ReadExtensionInfo(disk, filePath) ==
    LET reader == OpenReader(disk, filePath)
    IN IF reader.err \/ Unpacked[reader.key].err
       THEN [err |-> TRUE, ext |-> Nil]
       ELSE [err |-> FALSE,
             ext |-> createExtension(disk, Unpacked[reader.key].pkg, filePath)]

-----------------------------------------------------------------------------
(* Rewriting the assets of a readme (AssetProcessor) *)

\* strings.Index: the position of the first occurrence of sub in s, 0 if none.
IndexOf(s, sub) ==
    LET hits == {i \in 1..(Len(s) - Len(sub) + 1) : SubSeq(s, i, i + Len(sub) - 1) = sub}
    IN IF hits = {} THEN 0 ELSE CHOOSE i \in hits : \A j \in hits : i <= j

\* The text from the first occurrence of sub on, "" if there is none.
From(s, sub) == IF IndexOf(s, sub) = 0 THEN <<>> ELSE SubSeq(s, IndexOf(s, sub), Len(s))

\* The path component of url.Parse for scheme://host/path and for a bare
\* path, once the fragment and the query are cut off.
PathOf(u) ==
    IF IndexOf(u, <<":","/","/">>) = 0 THEN u
    ELSE From(SubSeq(u, IndexOf(u, <<":","/","/">>) + 3, Len(u)), <<"/">>)

\* The text before the first occurrence of sub, all of it if there is none.
Before(s, sub) == IF IndexOf(s, sub) = 0 THEN s ELSE SubSeq(s, 1, IndexOf(s, sub) - 1)

URLPath(u) == PathOf(Before(Before(u, <<"#">>), <<"?">>))

\* Has the URL a scheme http.Client can fetch?
Fetchable(u) ==
    \/ HasPrefix(ToLower(u), <<"h","t","t","p",":","/","/">>)
    \/ HasPrefix(ToLower(u), <<"h","t","t","p","s",":","/","/">>)

\* The name under which a fetched asset is stored: the base name of the URL
\* path, or an md5-derived name when the path gives none.
FileNameOf(path) ==
    IF path # <<>> /\ Base(path) # <<>> /\ Base(path) # <<".">>
    THEN Base(path)
    ELSE <<"m","d","5",".","b","i","n">>

generateFileName(assetURL) == FileNameOf(URLPath(assetURL))

\* os.Create + io.Copy into assetsDir; creating fails when the name is that
\* of the directory itself.
StoreAsset(fileName, assetsDir) ==
    IF fileName = <<"/">> THEN [err |-> TRUE, fileName |-> <<>>, file |-> {}]
    ELSE [err |-> FALSE, fileName |-> fileName, file |-> {Join(assetsDir, fileName)}]

\* downloadAsset: `served` is the set of URLs upstream answers with 200.
downloadAsset(assetURL, assetsDir, served) ==
    IF Fetchable(assetURL) /\ assetURL \in served
    THEN StoreAsset(generateFileName(assetURL), assetsDir)
    ELSE [err |-> TRUE, fileName |-> <<>>, file |-> {}]

\* fmt.Sprintf("%s/_assets/%s/%s", baseURL, extensionID, filepath.Base(localPath))
LocalURL(baseURL, extensionID, localPath) ==
    baseURL \o <<"/","_","a","s","s","e","t","s","/">> \o extensionID \o <<"/">> \o Base(localPath)

\* A reference the pass returns as it found it, without calling downloadAsset.
Kept(seg) == [seg |-> seg, file |-> {}, gets |-> {}, from |-> <<>>]

\* The rewriting that does not look at the error of downloadAsset.
RewrittenWhateverTheError(seg, dl, extensionID, baseURL) ==
    [seg |-> [seg EXCEPT !.url = LocalURL(baseURL, extensionID, dl.fileName)],
     file |-> dl.file, gets |-> {seg.url}, from |-> seg.url]

\* The reference after downloadAsset was called for it: the segment in the
\* output, the file stored for it, the URL client.Get was called with and
\* the URL whose bytes the file received.
Rewritten(seg, dl, extensionID, baseURL) ==
    IF dl.err THEN [seg |-> seg, file |-> {}, gets |-> {seg.url}, from |-> <<>>]
    ELSE [seg |-> [seg EXCEPT !.url = LocalURL(baseURL, extensionID, dl.fileName)],
          file |-> dl.file, gets |-> {seg.url}, from |-> seg.url]

\* processImageMatch without the test for data: URIs and anchors.
processImageMatchWithoutSkip(seg, assetsDir, extensionID, baseURL, served) ==
    Rewritten(seg, downloadAsset(seg.url, assetsDir, served), extensionID, baseURL)

\* processImageMatch on one ![alt](url) reference
processImageMatch(seg, assetsDir, extensionID, baseURL, served) ==
    IF HasPrefix(seg.url, <<"d","a","t","a",":">>) \/ HasPrefix(seg.url, <<"#">>)
    THEN Kept(seg)
    ELSE Rewritten(seg, downloadAsset(seg.url, assetsDir, served), extensionID, baseURL)

\* processAssetMatch on a [text](url) link, and on the [alt](url) inside an
\* image reference, which the link pattern matches when alt is not empty.
processAssetMatch(seg, assetsDir, extensionID, baseURL, served) ==
    IF \/ seg.alt = <<>>
       \/ HasPrefix(seg.url, <<"d","a","t","a",":">>)
       \/ HasPrefix(seg.url, <<"#">>)
       \/ HasPrefix(seg.url, <<"h","t","t","p">>)
    THEN Kept(seg)
    ELSE Rewritten(seg, downloadAsset(seg.url, assetsDir, served), extensionID, baseURL)

processImages(content, assetsDir, extensionID, baseURL, served) ==
    [i \in 1..Len(content) |->
        IF content[i].seg = "mdimg"
        THEN processImageMatch(content[i], assetsDir, extensionID, baseURL, served)
        ELSE Kept(content[i])]

processOtherAssets(content, assetsDir, extensionID, baseURL, served) ==
    [i \in 1..Len(content) |->
        IF content[i].seg \in {"mdimg", "mdlink"}
        THEN processAssetMatch(content[i], assetsDir, extensionID, baseURL, served)
        ELSE Kept(content[i])]

\* The content and the stored files of a pass over the readme.
PassContent(pass) == [i \in 1..Len(pass) |-> pass[i].seg]
PassFiles(pass) == UNION {pass[i].file : i \in 1..Len(pass)}
PassGets(pass) == UNION {pass[i].gets : i \in 1..Len(pass)}

\* The writes of the two passes in the order they happen, and the URL whose
\* bytes a file holds in the end: those of the last write to it.
Writes(passes) ==
    SelectSeq(passes.images \o passes.others, LAMBDA e : e.file # {})

LastWrite(writes, path) ==
    CHOOSE i \in 1..Len(writes) :
        /\ path \in writes[i].file
        /\ \A j \in 1..Len(writes) : path \in writes[j].file => j <= i

\* The calls of client.Get of the two passes in the order they are made:
\* the URL of each.
Fetches(passes) ==
    [i \in 1..Len(SelectSeq(passes.images \o passes.others, LAMBDA e : e.gets # {})) |->
        CHOOSE u \in SelectSeq(passes.images \o passes.others,
                               LAMBDA e : e.gets # {})[i].gets : TRUE]

\* The second pass runs over the content the first pass produced.
SecondPass(images, assetsDir, extensionID, baseURL, served) ==
    [images |-> images,
     others |-> processOtherAssets(PassContent(images), assetsDir, extensionID,
                                   baseURL, served)]

PassesResult(passes) ==
    [err |-> FALSE,
     content |-> PassContent(passes.others),
     files |-> PassFiles(passes.images) \cup PassFiles(passes.others),
     gets |-> PassGets(passes.images) \cup PassGets(passes.others),
     fetches |-> Fetches(passes),
     holds |-> [path \in PassFiles(passes.images) \cup PassFiles(passes.others) |->
                   Writes(passes)[LastWrite(Writes(passes), path)].from]]

\* ProcessReadme: the rewritten readme, the files stored under
\* assetsDir/extensionID with the URL each holds the bytes of, and the URLs
\* requested.  It returns no error once the directory exists.
ProcessReadme(readmeContent, extensionID, cfg, served) ==
    IF readmeContent = <<>>
    THEN [err |-> FALSE, content |-> <<>>, files |-> {}, gets |-> {}, fetches |-> <<>>,
          holds |-> <<>>]
    ELSE PassesResult(
           SecondPass(processImages(readmeContent, Join(cfg.AssetsDir, extensionID),
                                    extensionID, cfg.BaseURL, served),
                      Join(cfg.AssetsDir, extensionID), extensionID, cfg.BaseURL, served))

-----------------------------------------------------------------------------
(* Upstream providers (marketplace package) *)

\* Marketplace.fetchExtensionInfo: the id is the gallery's own extensionId.
MarketplaceFetchExtensionInfo(key) ==
    [ID |-> Listing(key).extensionId, Name |-> Listing(key).name,
     DisplayName |-> Listing(key).displayName, Version |-> Listing(key).version,
     Publisher |-> Listing(key).publisher, DownloadURL |-> key]

\* OpenVSXMarketplace.fetchExtensionInfo: the id is namespace.name.
OpenVSXFetchExtensionInfo(key) ==
    [ID |-> ExtID(Listing(key).publisher, Listing(key).name), Name |-> Listing(key).name,
     DisplayName |-> Listing(key).displayName, Version |-> Listing(key).version,
     Publisher |-> Listing(key).publisher, DownloadURL |-> key]

\* fmt.Sprintf("%s-%s.vsix", info.Name, info.Version) joined to targetDir
VsixPath(info, targetDir) ==
    Join(targetDir, info.Name \o <<"-">> \o info.Version \o <<".","v","s","i","x">>)

DownloadOutcomes == {"ok", "status", "copy"}

\* downloadFile: one GET of the download link.  A non-200 answer writes
\* nothing; a failed copy leaves what was copied so far; both are errors.
downloadFile(disk, downloadURL, filePath, outcome) ==
    CASE outcome = "ok" -> [err |-> FALSE, disk |-> WriteFile(disk, filePath, downloadURL)]
      [] outcome = "status" -> [err |-> TRUE, disk |-> disk]
      [] outcome = "copy" -> [err |-> TRUE, disk |-> WriteFile(disk, filePath, Truncated)]

\* The DownloadResult (with the disk left behind and the GETs made) of a
\* call that found no file at filePath and downloaded.
Downloaded(dl, filePath) ==
    IF dl.err
    THEN [err |-> TRUE, FilePath |-> <<>>, WasDownloaded |-> FALSE,
          disk |-> dl.disk, gets |-> 1]
    ELSE [err |-> FALSE, FilePath |-> filePath, WasDownloaded |-> TRUE,
          disk |-> dl.disk, gets |-> 1]

\* DownloadExtension without the os.Stat test for an existing file.
MarketplaceDownloadAlways(disk, info, targetDir, outcome) ==
    Downloaded(downloadFile(disk, info.DownloadURL, VsixPath(info, targetDir), outcome),
               VsixPath(info, targetDir))

\* Marketplace.DownloadExtension, filePath being its local of that name
MarketplaceDownloadTo(disk, info, filePath, outcome) ==
    IF FileExists(disk, filePath)
    THEN [err |-> FALSE, FilePath |-> filePath, WasDownloaded |-> FALSE,
          disk |-> disk, gets |-> 0]
    ELSE Downloaded(downloadFile(disk, info.DownloadURL, filePath, outcome), filePath)

MarketplaceDownloadExtension(disk, info, targetDir, outcome) ==
    MarketplaceDownloadTo(disk, info, VsixPath(info, targetDir), outcome)

\* OpenVSXMarketplace.DownloadExtension, filePath being its local of that name
OpenVSXDownloadTo(disk, info, filePath, outcome) ==
    IF FileExists(disk, filePath)
    THEN [err |-> FALSE, FilePath |-> filePath, WasDownloaded |-> FALSE,
          disk |-> disk, gets |-> 0]
    ELSE Downloaded(downloadFile(disk, info.DownloadURL, filePath, outcome), filePath)

OpenVSXDownloadExtension(disk, info, targetDir, outcome) ==
    OpenVSXDownloadTo(disk, info, VsixPath(info, targetDir), outcome)

\* Factory.CreateByType: the provider's two operations.
GetExtensionInfoByID(type, key) ==
    IF type = "microsoft" THEN MarketplaceFetchExtensionInfo(key)
    ELSE OpenVSXFetchExtensionInfo(key)

DownloadExtension(type, disk, info, targetDir, outcome) ==
    IF type = "microsoft" THEN MarketplaceDownloadExtension(disk, info, targetDir, outcome)
    ELSE OpenVSXDownloadExtension(disk, info, targetDir, outcome)

\* What an upstream registry answers to the lookup of an extension: the
\* request fails in transport, or it is answered with a status and a list of
\* extensions, each with the files of its latest version.
Answer(fails, status, extensions) ==
    [fails |-> fails, status |-> status, extensions |-> extensions]

\* An extension in an answer: the package it lists and the link to it, ""
\* when the answer has no download entry.
Hit(key, link) == [key |-> key, versions |-> 1, download |-> link]

\* Marketplace.fetchExtensionInfo with the answer to its POST.
MarketplaceResolve(answer) ==
    IF answer.fails THEN [err |-> "request error", info |-> Nil]
    ELSE IF answer.status # 200 THEN [err |-> "invalid status", info |-> Nil]
    ELSE IF Len(answer.extensions) = 0 THEN [err |-> "extension not found", info |-> Nil]
    ELSE IF answer.extensions[1].versions = 0 THEN [err |-> "no versions found", info |-> Nil]
    ELSE IF answer.extensions[1].download = "" THEN [err |-> "download URL not found", info |-> Nil]
    ELSE [err |-> "", info |-> MarketplaceFetchExtensionInfo(answer.extensions[1].key)]

\* The lookup that does not test the status of the answer.
OpenVSXResolveAnyStatus(answer) ==
    IF answer.fails THEN [err |-> "request error", info |-> Nil]
    ELSE IF Len(answer.extensions) = 0 THEN [err |-> "extension not found", info |-> Nil]
    ELSE IF answer.extensions[1].download = "" THEN [err |-> "download URL not found", info |-> Nil]
    ELSE [err |-> "", info |-> OpenVSXFetchExtensionInfo(answer.extensions[1].key)]

\* OpenVSXMarketplace.fetchExtensionInfo with the answer to its GET.
OpenVSXResolve(answer) ==
    IF answer.fails THEN [err |-> "request error", info |-> Nil]
    ELSE IF answer.status # 200 THEN [err |-> "invalid status", info |-> Nil]
    ELSE IF Len(answer.extensions) = 0 THEN [err |-> "extension not found", info |-> Nil]
    ELSE IF answer.extensions[1].download = "" THEN [err |-> "download URL not found", info |-> Nil]
    ELSE [err |-> "", info |-> OpenVSXFetchExtensionInfo(answer.extensions[1].key)]

\* MarketplaceProvider.GetExtensionInfoByID of the provider of the type.
ResolveByID(type, answer) ==
    IF type = "microsoft" THEN MarketplaceResolve(answer) ELSE OpenVSXResolve(answer)

-----------------------------------------------------------------------------
(* Initial state *)

NoOut == [cmd |-> "none", result |-> "none", row |-> Nil, prior |-> Nil]

NoResp == [kind |-> "none"]

Init ==
    /\ config \in Configs
    /\ db = {}
    /\ bulk \in {0, maxExtensionsLimit - 1 + BulkSlack}
    /\ vsix = {}
    /\ assets = {}
    /\ out = NoOut
    /\ resp = NoResp

-----------------------------------------------------------------------------
(* Commands *)

\* What the upstream registry answers for an extension id: the listing of
\* one of the versions it has held (the latest at the time of the call), or
\* nothing for an id it does not know.
UpstreamKeys(extensionID) ==
    {k \in AllPkgKeys : ExtID(Listing(k).publisher, Listing(k).name) = extensionID}

\* The outcomes of the package download that the commands of Spec meet.
CommandOutcomes == {"ok", "status"}

Outcome(cmd, result, row, prior) ==
    [cmd |-> cmd, result |-> result, row |-> row, prior |-> prior]

\* runDownload's ingestion of the package at filePath: read it, rewrite its
\* readme, upsert the row.
Ingest(disk, filePath, served) ==
    \E read \in {ReadExtensionInfo(disk, filePath)} :
      IF read.err
      THEN /\ out' = Outcome("download", "read error", Nil, Nil)
           /\ UNCHANGED <<db, assets>>
      ELSE \E processed \in {ProcessReadme(read.ext.ReadmeContent, read.ext.ID,
                                           config, served)} :
           \E dbExt \in {ToDBExtension([read.ext EXCEPT
                                           !.ReadmeContent = processed.content])} :
             /\ db' = UpsertExtension(db, dbExt)
             /\ assets' = assets \cup processed.files
             /\ out' = Outcome("download", "ingested", dbExt,
                               GetExtensionByID(db, dbExt.ID))

\* runDownload once the provider has returned the ExtensionInfo.
Fetched(type, info, outcome, served) ==
    \E result \in {DownloadExtension(type, vsix, info, config.ExtensionsDir, outcome)} :
      /\ vsix' = result.disk
      /\ IF result.err
         THEN /\ out' = Outcome("download", "download error", Nil, Nil)
              /\ UNCHANGED <<db, assets>>
         ELSE IF result.WasDownloaded
         THEN Ingest(result.disk, result.FilePath, served)
         ELSE \E existing \in {GetByID(db, info.ID)} :
                IF existing.panic
                THEN /\ out' = Outcome("download", "panic", Nil, Nil)
                     /\ UNCHANGED <<db, assets>>
                ELSE IF ~existing.found
                THEN Ingest(result.disk, result.FilePath, served)
                ELSE /\ out' = Outcome("download", "already in database", Nil, Nil)
                     /\ UNCHANGED <<db, assets>>

\* littlevsx download --type TYPE EXTENSION_ID
RunDownload(type, extensionID, outcome, served) ==
    /\ resp' = NoResp
    /\ UNCHANGED <<config, bulk>>
    /\ IF UpstreamKeys(extensionID) = {}
       THEN /\ out' = Outcome("download", "info error", Nil, Nil)
            /\ UNCHANGED <<db, vsix, assets>>
       ELSE \E key \in UpstreamKeys(extensionID) :
            \E info \in {GetExtensionInfoByID(type, key)} :
              Fetched(type, info, outcome, served)

\* littlevsx download with the answer upstream gives to the lookup.
RunDownloadAnswered(type, answer, outcome, served) ==
    /\ resp' = NoResp
    /\ UNCHANGED <<config, bulk>>
    /\ \E resolved \in {ResolveByID(type, answer)} :
         IF resolved.err # ""
         THEN /\ out' = Outcome("download", "info error", Nil, Nil)
              /\ UNCHANGED <<db, vsix, assets>>
         ELSE Fetched(type, resolved.info, outcome, served)

\* deleteVSIXFile
deleteVSIXFile(disk, path) ==
    IF path = <<>> \/ ~FileExists(disk, path) THEN disk ELSE RemoveFile(disk, path)

\* deleteAssetsFolder: os.RemoveAll of AssetsDir/extensionID
deleteAssetsFolder(files, cfg, extensionID) ==
    {f \in files : ~HasPrefix(f, Join(cfg.AssetsDir, extensionID) \o <<"/">>)}

\* littlevsx delete EXTENSION_ID, answered y or anything else at the prompt
RunDelete(id, confirmed) ==
    /\ resp' = NoResp
    /\ UNCHANGED <<config, bulk>>
    /\ \E existing \in {GetByID(db, id)} :
         IF existing.panic
         THEN /\ out' = Outcome("delete", "panic", Nil, Nil)
              /\ UNCHANGED <<db, vsix, assets>>
         ELSE IF ~existing.found
         THEN /\ out' = Outcome("delete", "not found", Nil, Nil)
              /\ UNCHANGED <<db, vsix, assets>>
         ELSE IF ~confirmed
         THEN /\ out' = Outcome("delete", "cancelled", Nil, Nil)
              /\ UNCHANGED <<db, vsix, assets>>
         ELSE /\ vsix' = deleteVSIXFile(vsix, existing.ext.FilePath)
              /\ assets' = deleteAssetsFolder(assets, config, existing.ext.ID)
              /\ db' = DeleteExtensionRow(db, id)
              /\ out' = Outcome("delete", "deleted", Nil, GetExtensionByID(db, id))

CommandIds == {IdX, IdY, IdNone}

-----------------------------------------------------------------------------
(* HTTP server: requests, the response writer, shared helpers *)

HTTPAPIVersion == "application/json;api-version=3.0-preview.1"
HTTPCacheControl == "no-cache, no-store, max-age=0, must-revalidate"
HTTPPragma == "no-cache"
HTTPExpires == "0"
jsonContentType == "application/json"
xmlContentType == "application/xml"
markdownContentType == "text/markdown"
octetStreamContentType == "application/octet-stream"

\* The routes setupRoutes registers, each with the methods it accepts.
RouteRoot == "/"
RouteQuery == "/_apis/public/gallery/extensionquery"
RouteGallery == "/_gallery/{publisher}/{name}/latest"
RouteAsset == "/_assets/{publisher}/{name}/{version}/{assetType}"
RouteExtensionAssets == "/_assets/{extensionID}/{filename}"

Routes == {RouteRoot, RouteQuery, RouteGallery, RouteAsset, RouteExtensionAssets}

Methods(route) == IF route = RouteQuery THEN {"POST", "OPTIONS"} ELSE {"GET", "OPTIONS"}

\* The handler the router picks.  A path no route matches goes to the
\* NotFoundHandler and a matched path with another method to the
\* MethodNotAllowedHandler; the router applies its middleware only to a
\* matched route, so neither of the two passes through corsMiddleware.
Match(r) ==
    IF r.route \notin Routes THEN "handleNotFound"
    ELSE IF r.method \notin Methods(r.route) THEN "handleMethodNotAllowed"
    ELSE CASE r.route = RouteRoot -> "handleRoot"
           [] r.route = RouteQuery -> "handleExtensionQuery"
           [] r.route = RouteGallery -> "handleVSCodeExtension"
           [] r.route = RouteAsset -> "handleVSCodeAsset"
           [] r.route = RouteExtensionAssets -> "handleExtensionAssets"

RouteHandlers == {"handleRoot", "handleExtensionQuery", "handleVSCodeExtension",
                  "handleVSCodeAsset", "handleExtensionAssets"}

\* What the handlers read: the catalog and the two directories.
Sys == [config |-> config, db |-> db, bulk |-> bulk, vsix |-> vsix, assets |-> assets]

\* The response under construction: status line, the headers the claims
\* speak of, the body, and a trace of what handling the request touched
\* (handler reached, locals of the query handler, asset handler chosen,
\* catalog reads, archive opens).
NewWriter(r) ==
    [kind |-> "response", req |-> r, written |-> TRUE, status |-> 200,
     cors |-> FALSE, cacheControl |-> "", pragma |-> "", expires |-> "",
     contentType |-> "", body |-> "empty", message |-> "", envelopeStatus |-> 0,
     extensions |-> {}, objects |-> {}, others |-> 0, totalCount |-> 0,
     extensionId |-> <<>>, searchQuery |-> <<>>, mode |-> "",
     handler |-> "", served |-> "", dbReads |-> 0, zipOpens |-> 0]

\* A panic in a handler: net/http recovers it and closes the connection,
\* nothing of the response under construction reaches the client.
Panicked(w) ==
    [NewWriter(w.req) EXCEPT !.written = FALSE, !.status = 0, !.body = "none",
                             !.extensionId = w.extensionId, !.searchQuery = w.searchQuery,
                             !.mode = w.mode, !.handler = w.handler,
                             !.dbReads = w.dbReads, !.zipOpens = w.zipOpens]

setCORSHeaders(w) == [w EXCEPT !.cors = TRUE]

setHTTPHeaders(w) ==
    [w EXCEPT !.cacheControl = HTTPCacheControl, !.pragma = HTTPPragma,
              !.expires = HTTPExpires]

\* writeJSON keeps a Content-Type that names an api-version.
writeJSON(w, status, body) ==
    [w EXCEPT !.contentType = IF w.contentType = HTTPAPIVersion THEN @ ELSE jsonContentType,
              !.status = status, !.body = body]

\* writeError putting the same status in every envelope.
writeErrorAlwaysNotFound(w, status, message) ==
    [writeJSON(w, status, "envelope") EXCEPT !.message = message,
                                             !.envelopeStatus = 404]

\* writeError: the envelope {error, message, status}
writeError(w, status, message) ==
    [writeJSON(w, status, "envelope") EXCEPT !.message = message,
                                             !.envelopeStatus = status]

-----------------------------------------------------------------------------
(* The extension query *)

Criterion(filterType, value) == [filterType |-> filterType, value |-> value]

\* A decoded JSON body: the top-level "query" string ("" when absent) and
\* the "filters" list, each filter with its "criteria" list.
Body(query, filters) == [json |-> TRUE, query |-> query, filters |-> filters]
Malformed == [json |-> FALSE, query |-> <<>>, filters |-> <<>>]

RECURSIVE ScanCriteriaFirst(_, _)
\* The loop as it would be if it kept the first value of each tag.
ScanCriteriaFirst(criteria, acc) ==
    IF criteria = <<>> THEN acc
    ELSE LET criterion == Head(criteria)
             next == IF criterion.filterType = 10 /\ acc.searchQuery = <<>>
                     THEN [acc EXCEPT !.searchQuery = criterion.value]
                     ELSE IF criterion.filterType = 4 /\ acc.extensionId = <<>>
                     THEN [acc EXCEPT !.extensionId = criterion.value]
                     ELSE acc
         IN ScanCriteriaFirst(Tail(criteria), next)

RECURSIVE ScanCriteria(_, _)
\* The loop over criteria: every type-10 entry assigns searchQuery, every
\* type-4 entry assigns extensionId, in list order.
ScanCriteria(criteria, acc) ==
    IF criteria = <<>> THEN acc
    ELSE LET criterion == Head(criteria)
             next == IF criterion.filterType = 10
                     THEN [acc EXCEPT !.searchQuery = criterion.value]
                     ELSE IF criterion.filterType = 4
                     THEN [acc EXCEPT !.extensionId = criterion.value]
                     ELSE acc
         IN ScanCriteria(Tail(criteria), next)

\* The body read as it would be if the criteria were scanned even when a
\* top-level query string is present.
ParseQueryScanningAlways(query) ==
    IF Len(query.filters) > 0 /\ Len(query.filters[1].criteria) > 0
    THEN ScanCriteria(query.filters[1].criteria,
                      [searchQuery |-> query.query, extensionId |-> <<>>])
    ELSE [searchQuery |-> query.query, extensionId |-> <<>>]

\* The two locals searchQuery and extensionId after the body is read.
ParseQuery(query) ==
    IF query.query # <<>>
    THEN [searchQuery |-> query.query, extensionId |-> <<>>]
    ELSE IF Len(query.filters) > 0 /\ Len(query.filters[1].criteria) > 0
    THEN ScanCriteria(query.filters[1].criteria, [searchQuery |-> <<>>, extensionId |-> <<>>])
    ELSE [searchQuery |-> <<>>, extensionId |-> <<>>]

\* fmt.Sprintf, kept as the format and its arguments.
Sprintf(format, args) == [format |-> format, args |-> args]

\* strings.TrimSuffix
TrimSuffix(s, suffix) ==
    IF HasSuffix(s, suffix) THEN SubSeq(s, 1, Len(s) - Len(suffix)) ELSE s

AssetFile(assetType, source) == [assetType |-> assetType, source |-> source]

\* createExtensionInfo: the gallery object of a record, with its one version
\* and the files of that version (generateUUID gives the opaque "uuid"; the
\* properties, statistics and timestamps are left out).
createExtensionInfo(ext, s) ==
    LET baseURL == s.config.BaseURL
        at == <<baseURL, ext.Publisher, ext.Name, ext.Version>>
        files ==
            <<AssetFile("Microsoft.VisualStudio.Code.Manifest",
                   Sprintf("%s/_gallery/%s/%s/%s/file/package.json", at)),
              AssetFile("Microsoft.VisualStudio.Services.VSIXPackage",
                   Sprintf("%s/_gallery/%s/%s/%s/file/%s", at \o <<Base(ext.FilePath)>>)),
              AssetFile("Microsoft.VisualStudio.Services.VsixManifest",
                   Sprintf("%s/_gallery/%s/%s/%s/file/extension.vsixmanifest", at)),
              AssetFile("Microsoft.VisualStudio.Services.VsixSignature",
                   Sprintf("%s/_gallery/%s/%s/%s/file/%s.sigzip",
                           at \o <<TrimSuffix(Base(ext.FilePath), <<".","v","s","i","x">>)>>)),
              AssetFile("Microsoft.VisualStudio.Services.PublicKey",
                   Sprintf("%s/_gallery/-/public-key/%s", <<baseURL, "uuid">>))>>
        readme ==
            IF ext.ReadmeContent # <<>> \/ ext.Description # <<>>
            THEN <<AssetFile("Microsoft.VisualStudio.Services.Content.Details",
                        Sprintf("%s/_assets/%s/%s/%s/Microsoft.VisualStudio.Services.Content.Details", at))>>
            ELSE <<>>
        license ==
            IF ext.License # <<>>
            THEN <<AssetFile("Microsoft.VisualStudio.Services.Content.License",
                        Sprintf("%s/_assets/%s/%s/%s/file/LICENSE.md", at))>>
            ELSE <<>>
        icon ==
            IF ext.Icon # <<>>
            THEN <<AssetFile("Microsoft.VisualStudio.Services.Icons.Default",
                        Sprintf("%s/_assets/%s/%s/%s/file/%s", at \o <<Base(ext.Icon)>>))>>
            ELSE <<>>
        version == [version |-> ext.Version,
                    assetUri |-> Sprintf("%s/_assets/%s/%s/%s", at),
                    fallbackAssetUri |-> Sprintf("%s/_assets/%s/%s/%s", at),
                    targetPlatform |-> "universal",
                    files |-> files \o readme \o license \o icon]
    IN [extensionId |-> IF ext.ID = <<>> THEN "uuid" ELSE ext.ID,
        extensionName |-> ext.Name,
        displayName |-> ext.DisplayName,
        shortDescription |-> ext.Description,
        versions |-> <<version>>]

\* The response as it would be if TotalCount reported the size of the catalog.
WriteResultsCountingCatalog(w, page, s) ==
    [writeJSON(w, 200, "results") EXCEPT
        !.extensions = {e.ID : e \in page.rows}, !.others = page.others,
        !.objects = {createExtensionInfo(e, s) : e \in page.rows},
        !.totalCount = Cardinality(s.db) + s.bulk]

\* The response listing a query result: one extension object per record, in
\* the model's terms the objects of the named records and the number of the
\* others; TotalCount is len(results).
WriteResults(w, page, s) ==
    [writeJSON(w, 200, "results") EXCEPT
        !.extensions = {e.ID : e \in page.rows}, !.others = page.others,
        !.objects = {createExtensionInfo(e, s) : e \in page.rows},
        !.totalCount = Cardinality({createExtensionInfo(e, s) : e \in page.rows}) + page.others]

\* handleExtensionQuery: the responses it can give.
handleExtensionQuery(w, r, s) ==
    LET h == [w EXCEPT !.handler = "handleExtensionQuery"]
        parsed == ParseQuery(r.body)
        p == [h EXCEPT !.contentType = HTTPAPIVersion, !.dbReads = 1,
                       !.extensionId = parsed.extensionId,
                       !.searchQuery = parsed.searchQuery,
                       !.mode = IF parsed.extensionId # <<>> THEN "id"
                                ELSE IF parsed.searchQuery # <<>> THEN "search"
                                ELSE "all"]
        byID == GetByID(s.db, parsed.extensionId)
    IN IF r.method = "OPTIONS" THEN {[h EXCEPT !.status = 200]}
       ELSE IF ~r.body.json THEN {writeError(h, 400, "Invalid JSON format")}
       ELSE IF parsed.extensionId # <<>>
       THEN IF byID.panic THEN {Panicked(p)}
            ELSE IF byID.found
            THEN {WriteResults(p, [rows |-> {byID.ext}, others |-> 0], s)}
            ELSE {WriteResults(p, [rows |-> {}, others |-> 0], s)}
       ELSE IF parsed.searchQuery # <<>>
       THEN {WriteResults(p, page, s) : page \in Search(s.db, parsed.searchQuery)}
       ELSE {WriteResults(p, page, s) : page \in GetAll(s.db, s.bulk)}

-----------------------------------------------------------------------------
(* The other route handlers *)

handleRoot(w, r, s) ==
    LET h == [w EXCEPT !.handler = "handleRoot"]
    IN IF r.method = "OPTIONS" THEN [h EXCEPT !.status = 200]
       ELSE writeJSON(h, 200, "info")

handleVSCodeExtension(w, r, s) ==
    LET h == [w EXCEPT !.handler = "handleVSCodeExtension"]
        g == [h EXCEPT !.dbReads = 1]
        existing == GetByID(s.db, ExtID(r.publisher, r.name))
    IN IF r.method = "OPTIONS" THEN [h EXCEPT !.status = 200]
       ELSE IF existing.panic THEN Panicked(g)
       ELSE IF ~existing.found THEN writeError(g, 404, "Extension not found")
       ELSE [writeJSON(g, 200, "extension") EXCEPT !.extensions = {existing.ext.ID}]

\* extractFileFromVSIX: the content of the archive entry with that name.
extractFileFromVSIX(disk, vsixPath, filePath) ==
    LET reader == OpenReader(disk, vsixPath)
        e == FirstNamed(reader.File, filePath)
    IN [err |-> reader.err \/ ~e.found]

\* w.Write without a WriteHeader: status 200
Write(w, contentType, body) ==
    [w EXCEPT !.status = 200, !.contentType = contentType, !.body = body]

\* http.ServeFile of a regular file, or its own 404 for a missing one
ServeFile(w, exists) ==
    IF exists THEN [w EXCEPT !.status = 200, !.body = "file"]
    ELSE [w EXCEPT !.status = 404, !.contentType = "text/plain; charset=utf-8",
                   !.body = "404 page not found"]

servePackageJSON(w, ext, s) ==
    LET z == [w EXCEPT !.served = "servePackageJSON", !.zipOpens = @ + 1]
    IN IF extractFileFromVSIX(s.vsix, ext.FilePath, packageJSONPath).err
       THEN Write(z, jsonContentType, "basic info")
       ELSE Write(z, jsonContentType, "package.json")

serveVSIXFile(w, ext, s) ==
    LET z == [w EXCEPT !.served = "serveVSIXFile", !.contentType = octetStreamContentType]
    IN ServeFile(z, FileExists(s.vsix, ext.FilePath))

serveVSIXManifest(w, ext, s) ==
    LET z == [w EXCEPT !.served = "serveVSIXManifest", !.zipOpens = @ + 1]
    IN IF extractFileFromVSIX(s.vsix, ext.FilePath, vsixManifestPath).err
       THEN Write(z, xmlContentType, "basic manifest")
       ELSE Write(z, xmlContentType, "extension.vsixmanifest")

serveEmptySignature(w) ==
    Write([w EXCEPT !.served = "serveEmptySignature"], octetStreamContentType, "empty")

serveEmptyPublicKey(w) ==
    Write([w EXCEPT !.served = "serveEmptyPublicKey"], octetStreamContentType, "empty")

serveREADME(w, ext, s) ==
    LET z == [w EXCEPT !.served = "serveREADME"]
        o == [z EXCEPT !.zipOpens = @ + 1]
    IN IF ext.ReadmeContent # <<>> THEN Write(z, markdownContentType, "stored readme")
       ELSE IF extractFileFromVSIX(s.vsix, ext.FilePath, readmePath).err
       THEN Write(o, markdownContentType, "readme not available")
       ELSE Write(o, markdownContentType, "archive readme")

serveLICENSE(w, ext, s) ==
    LET z == [w EXCEPT !.served = "serveLICENSE", !.zipOpens = @ + 1]
    IN IF extractFileFromVSIX(s.vsix, ext.FilePath, licensePath).err
       THEN Write(z, markdownContentType, "license not available")
       ELSE Write(z, markdownContentType, "license")

\* filepath.Ext: the suffix from the last dot of the last path element
Ext(path) ==
    LET base == Base(path)
        i == LastIndexOf(base, ".")
    IN IF i = 0 THEN <<>> ELSE SubSeq(base, i, Len(base))

serveIcon(w, ext, s) ==
    LET z == [w EXCEPT !.served = "serveIcon"]
        o == [z EXCEPT !.zipOpens = @ + 1]
        iconPath == <<"e","x","t","e","n","s","i","o","n","/">> \o ext.Icon
        fileExt == ToLower(Ext(ext.Icon))
        mimeType == CASE fileExt = <<".","p","n","g">> -> "image/png"
                      [] fileExt \in {<<".","j","p","g">>, <<".","j","p","e","g">>} -> "image/jpeg"
                      [] fileExt = <<".","g","i","f">> -> "image/gif"
                      [] fileExt = <<".","s","v","g">> -> "image/svg+xml"
                      [] OTHER -> "image/png"
    IN IF ext.Icon = <<>> THEN Write(z, "text/plain", "icon not available")
       ELSE IF extractFileFromVSIX(s.vsix, ext.FilePath, iconPath).err
       THEN Write(o, "text/plain", "icon not found")
       ELSE Write(o, mimeType, "icon")

\* The eight asset-type tokens of the dispatch table.
TokenManifest == "Microsoft.VisualStudio.Code.Manifest"
TokenVSIXPackage == "Microsoft.VisualStudio.Services.VSIXPackage"
TokenVsixManifest == "Microsoft.VisualStudio.Services.VsixManifest"
TokenVsixSignature == "Microsoft.VisualStudio.Services.VsixSignature"
TokenPublicKey == "Microsoft.VisualStudio.Services.PublicKey"
TokenDetails == "Microsoft.VisualStudio.Services.Content.Details"
TokenLicense == "Microsoft.VisualStudio.Services.Content.License"
TokenIcon == "Microsoft.VisualStudio.Services.Icons.Default"

\* The switch with the case of the public key missing.
ServeAssetTypeWithoutPublicKey(w, assetType, ext, s) ==
    CASE assetType = TokenManifest -> servePackageJSON(w, ext, s)
      [] assetType = TokenVSIXPackage -> serveVSIXFile(w, ext, s)
      [] assetType = TokenVsixManifest -> serveVSIXManifest(w, ext, s)
      [] assetType = TokenVsixSignature -> serveEmptySignature(w)
      [] assetType = TokenDetails -> serveREADME(w, ext, s)
      [] assetType = TokenLicense -> serveLICENSE(w, ext, s)
      [] assetType = TokenIcon -> serveIcon(w, ext, s)
      [] OTHER -> writeError(w, 404, "Asset type not supported")

\* The switch over assetType
ServeAssetType(w, assetType, ext, s) ==
    CASE assetType = TokenManifest -> servePackageJSON(w, ext, s)
      [] assetType = TokenVSIXPackage -> serveVSIXFile(w, ext, s)
      [] assetType = TokenVsixManifest -> serveVSIXManifest(w, ext, s)
      [] assetType = TokenVsixSignature -> serveEmptySignature(w)
      [] assetType = TokenPublicKey -> serveEmptyPublicKey(w)
      [] assetType = TokenDetails -> serveREADME(w, ext, s)
      [] assetType = TokenLicense -> serveLICENSE(w, ext, s)
      [] assetType = TokenIcon -> serveIcon(w, ext, s)
      [] OTHER -> writeError(w, 404, "Asset type not supported")

\* The handler without the comparison of the stored version.
handleVSCodeAssetAnyVersion(w, r, s) ==
    LET h == [w EXCEPT !.handler = "handleVSCodeAsset"]
        g == [h EXCEPT !.dbReads = 1]
        existing == GetByID(s.db, ExtID(r.publisher, r.name))
    IN IF r.method = "OPTIONS" THEN [h EXCEPT !.status = 200]
       ELSE IF existing.panic THEN Panicked(g)
       ELSE IF ~existing.found THEN writeError(g, 404, "Extension not found")
       ELSE ServeAssetType(g, r.assetType, existing.ext, s)

handleVSCodeAsset(w, r, s) ==
    LET h == [w EXCEPT !.handler = "handleVSCodeAsset"]
        g == [h EXCEPT !.dbReads = 1]
        existing == GetByID(s.db, ExtID(r.publisher, r.name))
    IN IF r.method = "OPTIONS" THEN [h EXCEPT !.status = 200]
       ELSE IF existing.panic THEN Panicked(g)
       ELSE IF ~existing.found THEN writeError(g, 404, "Extension not found")
       ELSE IF existing.ext.Version # r.version THEN writeError(g, 404, "Version not found")
       ELSE ServeAssetType(g, r.assetType, existing.ext, s)

\* The Content-Type handleExtensionAssets picks from the file extension
AssetContentType(filename) ==
    LET fileExt == ToLower(Ext(filename))
    IN CASE fileExt = <<".","p","n","g">> -> "image/png"
         [] fileExt \in {<<".","j","p","g">>, <<".","j","p","e","g">>} -> "image/jpeg"
         [] fileExt = <<".","g","i","f">> -> "image/gif"
         [] fileExt = <<".","s","v","g">> -> "image/svg+xml; charset=utf-8"
         [] fileExt = <<".","c","s","s">> -> "text/css; charset=utf-8"
         [] fileExt = <<".","j","s">> -> "application/javascript; charset=utf-8"
         [] fileExt = <<".","h","t","m","l">> -> "text/html; charset=utf-8"
         [] fileExt = <<".","i","c","o">> -> "image/x-icon"
         [] fileExt = <<".","w","e","b","p">> -> "image/webp"
         [] OTHER -> "detected"

\* handleExtensionAssets has no OPTIONS branch of its own.
handleExtensionAssets(w, r, s) ==
    LET h == [w EXCEPT !.handler = "handleExtensionAssets"]
        assetsDir == Join(Join(GetExtensionsDir(s.config), <<"a","s","s","e","t","s">>), r.extensionID)
        filePath == Join(assetsDir, r.filename)
    IN IF r.extensionID = <<>> \/ r.filename = <<>>
       THEN writeError(h, 400, "Invalid request parameters")
       ELSE IF filePath \notin s.assets THEN writeError(h, 404, "Asset not found")
       ELSE ServeFile([h EXCEPT !.contentType = AssetContentType(r.filename),
                                !.cacheControl = "public, max-age=300"], TRUE)

handleNotFound(w, r) ==
    LET h == [w EXCEPT !.handler = "handleNotFound"]
    IN IF r.method = "OPTIONS" THEN [h EXCEPT !.status = 200]
       ELSE writeError(h, 404, "Page not found")

handleMethodNotAllowed(w, r) ==
    LET h == [w EXCEPT !.handler = "handleMethodNotAllowed"]
    IN IF r.method = "OPTIONS" THEN [h EXCEPT !.status = 200]
       ELSE writeError(h, 405, "Method not supported")

-----------------------------------------------------------------------------
(* Middleware and the router *)

\* The handler of the matched route: the responses it can give.
RouteHandler(w, r, s) ==
    CASE r.route = RouteRoot -> {handleRoot(w, r, s)}
      [] r.route = RouteQuery -> handleExtensionQuery(w, r, s)
      [] r.route = RouteGallery -> {handleVSCodeExtension(w, r, s)}
      [] r.route = RouteAsset -> {handleVSCodeAsset(w, r, s)}
      [] r.route = RouteExtensionAssets -> {handleExtensionAssets(w, r, s)}

\* loggingMiddleware logs and calls the next handler.
loggingMiddleware(w, r, s) == RouteHandler(w, r, s)

\* The middleware without its answer to OPTIONS.
corsMiddlewareWithoutPreflight(w, r, s) ==
    loggingMiddleware(setHTTPHeaders(setCORSHeaders(w)), r, s)

\* corsMiddleware: sets the headers, answers OPTIONS itself with 204.
corsMiddleware(w, r, s) ==
    LET h == setHTTPHeaders(setCORSHeaders(w))
    IN IF r.method = "OPTIONS" THEN {[h EXCEPT !.status = 204]}
       ELSE loggingMiddleware(h, r, s)

\* Router.ServeHTTP
ServeHTTP(r, s) ==
    CASE Match(r) = "handleNotFound" -> {handleNotFound(NewWriter(r), r)}
      [] Match(r) = "handleMethodNotAllowed" -> {handleMethodNotAllowed(NewWriter(r), r)}
      [] OTHER -> corsMiddleware(NewWriter(r), r, s)

-----------------------------------------------------------------------------
(* The requests of the model *)

ById_X == Criterion(4, IdX)
ById_None == Criterion(4, IdNone)
ById_Empty == Criterion(4, <<>>)
ByText_x == Criterion(10, <<"x">>)
ByText_d == Criterion(10, <<"d">>)
ByOtherType == Criterion(8, <<"x">>)

MaxCriteria == 2

\* Criteria lists: every list of up to MaxCriteria entries over two
\* identifier and two search criteria, and lists with an empty identifier
\* or a criterion of another type.
CriteriaLists ==
    UNION {[1..n -> {ById_X, ById_None, ByText_x, ByText_d}] : n \in 0..MaxCriteria}
      \cup {<<ById_Empty>>, <<ByOtherType>>, <<ById_Empty, ByText_x>>, <<ByText_x, ById_Empty>>, <<ByOtherType, ById_X>>}

Filter(criteria) == [criteria |-> criteria]

QueryBodies ==
    {Malformed, Body(<<>>, <<>>), Body(<<"y">>, <<>>)}
      \cup {Body(<<>>, <<Filter(cl)>>) : cl \in CriteriaLists}
      \cup {Body(<<"y">>, <<Filter(cl)>>) : cl \in {<<ById_X>>, <<ByText_x>>, <<ById_X, ByText_x>>}}
      \cup {Body(<<>>, <<Filter(<<>>), Filter(<<ById_X>>)>>),
            Body(<<>>, <<Filter(<<ByText_x>>), Filter(<<ById_X>>)>>)}

AssetTokens ==
    {TokenManifest, TokenVSIXPackage, TokenVsixManifest, TokenVsixSignature,
     TokenPublicKey, TokenDetails, TokenLicense, TokenIcon,
     "Microsoft.VisualStudio.Services.Content.Changelog"}

RootRequest(method) == [method |-> method, route |-> RouteRoot]
QueryRequest(method, body) == [method |-> method, route |-> RouteQuery, body |-> body]
GalleryRequest(method, publisher, name) ==
    [method |-> method, route |-> RouteGallery, publisher |-> publisher, name |-> name]
AssetRequest(method, publisher, name, version, assetType) ==
    [method |-> method, route |-> RouteAsset, publisher |-> publisher, name |-> name,
     version |-> version, assetType |-> assetType]
ExtensionAssetsRequest(method, extensionID, filename) ==
    [method |-> method, route |-> RouteExtensionAssets, extensionID |-> extensionID,
     filename |-> filename]
OtherRequest(method) == [method |-> method, route |-> "/favicon.ico"]

Requests ==
    {RootRequest(m) : m \in {"GET", "OPTIONS", "POST"}}
      \cup {QueryRequest("POST", b) : b \in QueryBodies}
      \cup {QueryRequest(m, Body(<<>>, <<Filter(<<ById_X>>)>>)) : m \in {"OPTIONS", "GET"}}
      \cup {GalleryRequest(m, <<"p">>, n) : m \in {"GET", "OPTIONS"}, n \in {<<"x">>, <<"n">>}}
      \cup {AssetRequest("GET", <<"p">>, <<"x">>, v, t) :
                v \in {<<"1">>, <<"2">>}, t \in AssetTokens}
      \cup {AssetRequest("GET", <<"p">>, <<"y">>, <<"1">>, t) : t \in AssetTokens}
      \cup {AssetRequest("GET", <<"p">>, <<"n">>, <<"1">>, TokenManifest)}
      \cup {AssetRequest("OPTIONS", <<"p">>, <<"x">>, <<"1">>, t) :
                t \in {TokenManifest, TokenVSIXPackage}}
      \cup {ExtensionAssetsRequest(m, id, <<"i","m","g",".","p","n","g">>) :
                m \in {"GET", "OPTIONS"}, id \in {IdX, IdNone}}
      \cup {OtherRequest(m) : m \in {"GET", "OPTIONS"}}

-----------------------------------------------------------------------------
(* Server actions: one request handled, by the handler the router picks *)

\* A server that unpacks what it serves into the asset directory: the fault
\* of a request that writes.
ServeUnpacking(r) ==
    /\ resp' \in ServeHTTP(r, Sys)
    /\ out' = NoOut
    /\ assets' = assets \cup {Join(config.AssetsDir, <<"c","a","c","h","e">>)}
    /\ UNCHANGED <<config, db, bulk, vsix>>

Serve(r) ==
    /\ resp' \in ServeHTTP(r, Sys)
    /\ out' = NoOut
    /\ UNCHANGED <<config, db, bulk, vsix, assets>>

HandleRoot == \E r \in Requests : Match(r) = "handleRoot" /\ Serve(r)
HandleExtensionQuery == \E r \in Requests : Match(r) = "handleExtensionQuery" /\ Serve(r)
HandleVSCodeExtension == \E r \in Requests : Match(r) = "handleVSCodeExtension" /\ Serve(r)
HandleVSCodeAsset == \E r \in Requests : Match(r) = "handleVSCodeAsset" /\ Serve(r)
HandleExtensionAssets == \E r \in Requests : Match(r) = "handleExtensionAssets" /\ Serve(r)
HandleNotFound == \E r \in Requests : Match(r) = "handleNotFound" /\ Serve(r)
HandleMethodNotAllowed == \E r \in Requests : Match(r) = "handleMethodNotAllowed" /\ Serve(r)

Download ==
    \E type \in MarketplaceTypes, id \in CommandIds,
       outcome \in CommandOutcomes, served \in SUBSET {RemoteImg} :
         RunDownload(type, id, outcome, served)

Delete == \E id \in CommandIds, confirmed \in BOOLEAN : RunDelete(id, confirmed)

Next ==
    \/ Download
    \/ Delete
    \/ HandleRoot
    \/ HandleExtensionQuery
    \/ HandleVSCodeExtension
    \/ HandleVSCodeAsset
    \/ HandleExtensionAssets
    \/ HandleNotFound
    \/ HandleMethodNotAllowed

Spec == Init /\ [][Next]_vars

-----------------------------------------------------------------------------
(* Calling a provider's DownloadExtension repeatedly *)

\* One call, as the caller sees it: its arguments, the DownloadResult or
\* error, and the GETs it made.
Call(type, info, targetDir, result) ==
    [type |-> type, info |-> info, targetDir |-> targetDir, err |-> result.err,
     FilePath |-> result.FilePath, WasDownloaded |-> result.WasDownloaded,
     gets |-> result.gets]

\* A caller invokes DownloadExtension of one of the providers, as runDownload
\* does, with the configured package directory; out keeps this call, the
\* call before it and the disk this call found.
Fetch(type, key, outcome) ==
    \E info \in {GetExtensionInfoByID(type, key)} :
    \E result \in {DownloadExtension(type, vsix, info, config.ExtensionsDir, outcome)} :
      /\ vsix' = result.disk
      /\ out' = [cmd |-> "fetch", call |-> Call(type, info, config.ExtensionsDir, result),
                 before |-> vsix,
                 prev |-> IF out.cmd = "fetch" THEN out.call ELSE Nil]
      /\ resp' = NoResp
      /\ UNCHANGED <<config, db, bulk, assets>>

NextFetch == \E type \in MarketplaceTypes, key \in PkgKeys, outcome \in DownloadOutcomes :
                Fetch(type, key, outcome)

SpecFetch == Init /\ [][NextFetch]_vars

-----------------------------------------------------------------------------
(* Properties: the extension query (C1 - C4) *)

Min(a, b) == IF a < b THEN a ELSE b

Ids(rows) == {row.ID : row \in rows}

IsResponse == resp.kind = "response"

\* The last step was a POST of a well-formed body to the query route.
IsQuery ==
    /\ IsResponse
    /\ resp.req.route = RouteQuery
    /\ resp.req.method = "POST"
    /\ resp.req.body.json

\* The criteria of the first filter, and those of all filters.
FirstCriteria(body) == IF Len(body.filters) > 0 THEN body.filters[1].criteria ELSE <<>>

AllCriteria(body) ==
    UNION {{body.filters[i].criteria[j] : j \in 1..Len(body.filters[i].criteria)} :
             i \in 1..Len(body.filters)}

Tagged(criteria, tag) == {i \in 1..Len(criteria) : criteria[i].filterType = tag}

\* The value of the first / the last criterion with the tag, "" if none.
FirstValue(criteria, tag) ==
    IF Tagged(criteria, tag) = {} THEN <<>>
    ELSE criteria[CHOOSE i \in Tagged(criteria, tag) :
                    \A k \in Tagged(criteria, tag) : i <= k].value

LastValue(criteria, tag) ==
    IF Tagged(criteria, tag) = {} THEN <<>>
    ELSE criteria[CHOOSE i \in Tagged(criteria, tag) :
                    \A k \in Tagged(criteria, tag) : i >= k].value

\* The query names one identifier and nothing that could compete with it:
\* no top-level query string, one filter, one type-4 criterion, its value V
\* not empty.
NamesOneId ==
    /\ IsQuery
    /\ resp.req.body.query = <<>>
    /\ Len(resp.req.body.filters) = 1
    /\ Cardinality(Tagged(FirstCriteria(resp.req.body), 4)) = 1
    /\ LastValue(FirstCriteria(resp.req.body), 4) # <<>>

\* C1: a query whose criteria carry a filterType-4 value V is answered with a
\* success response listing exactly the records with id = V: one extension
\* when V is in the catalog, none (still a success, no error, no crash) when
\* it is not.
C1_ExactIdLookup ==
    NamesOneId =>
        /\ resp.written
        /\ resp.status = 200
        /\ resp.extensions = {id \in Ids(db) : id = LastValue(FirstCriteria(resp.req.body), 4)}
        /\ resp.others = 0
        /\ resp.totalCount = Cardinality(resp.extensions)

\* The query has no usable criteria: no search string and no identifier.
NoUsableCriteria ==
    /\ IsQuery
    /\ resp.req.body.query = <<>>
    /\ \A c \in AllCriteria(resp.req.body) : c.filterType \in {4, 10} => c.value = <<>>

\* C2 as stated: a query without usable criteria returns one extension
\* object for every record in storage, none omitted, however many there are.
C2_EveryRecord ==
    NoUsableCriteria =>
        /\ resp.written
        /\ resp.extensions = Ids(db)
        /\ resp.others = bulk
        /\ resp.totalCount = Cardinality(db) + bulk

\* C2, amended: a query without usable criteria returns every record while
\* the catalog holds at most maxExtensionsLimit records, and exactly
\* maxExtensionsLimit of its records when it holds more.
C2_EveryRecordUpToLimit ==
    NoUsableCriteria =>
        /\ resp.written
        /\ resp.status = 200
        /\ resp.extensions \subseteq Ids(db)
        /\ resp.others <= bulk
        /\ resp.totalCount = Cardinality(resp.extensions) + resp.others
        /\ resp.totalCount = Min(Cardinality(db) + bulk, maxExtensionsLimit)

\* A catalog above the limit was queried and the answer was cut at the limit.
C2_CutAtLimit ==
    /\ NoUsableCriteria
    /\ Cardinality(db) + bulk > maxExtensionsLimit
    /\ resp.totalCount = maxExtensionsLimit
    /\ resp.extensions # Ids(db)

HasIdCriterion(body) == \E c \in AllCriteria(body) : c.filterType = 4

HasSearchString(body) ==
    body.query # <<>> \/ \E c \in AllCriteria(body) : c.filterType = 10

\* C3 as stated: strict precedence.  With a type-4 criterion in the request
\* the exact-id lookup is made, whatever search string is present; without
\* one the search string is used; with neither the whole catalog is returned.
C3_StrictPrecedence ==
    IsQuery =>
        resp.mode = IF HasIdCriterion(resp.req.body) THEN "id"
                    ELSE IF HasSearchString(resp.req.body) THEN "search"
                    ELSE "all"

\* The branch the amended precedence prescribes for a body.
Prescribed(body) ==
    IF body.query # <<>> THEN "search"
    ELSE IF LastValue(FirstCriteria(body), 4) # <<>> THEN "id"
    ELSE IF LastValue(FirstCriteria(body), 10) # <<>> THEN "search"
    ELSE "all"

\* C3, amended: a non-empty top-level query string is searched for and the
\* criteria are not read.  Otherwise only the criteria of the first filter
\* count: a non-empty identifier among them gives the exact-id lookup
\* whatever search criterion is present, else a non-empty search criterion
\* gives the search, else the whole catalog is returned.
C3_Precedence ==
    IsQuery =>
        /\ resp.mode = Prescribed(resp.req.body)
        /\ resp.mode = "id" /\ resp.written =>
              resp.extensions = Ids(db) \cap {LastValue(FirstCriteria(resp.req.body), 4)}
        /\ resp.mode = "search" =>
              /\ resp.written
              /\ resp.extensions =
                    {row.ID : row \in {x \in db : SearchMatches(x, resp.searchQuery)}}
        /\ resp.mode = "all" => resp.written /\ resp.extensions \subseteq Ids(db)

\* An identifier and a search criterion came together, the search criterion
\* matching more than the identifier, and the identifier decided.
C3_IdOverSearch ==
    /\ IsQuery
    /\ resp.req.body.query = <<>>
    /\ LastValue(FirstCriteria(resp.req.body), 4) = IdX
    /\ LastValue(FirstCriteria(resp.req.body), 10) = <<"d">>
    /\ Cardinality({x \in db : SearchMatches(x, <<"d">>)}) = 2
    /\ resp.mode = "id"
    /\ resp.extensions = {IdX}

\* C4 as stated: of several criteria with the same tag the first in list
\* order gives the value used.
C4_FirstOccurrence ==
    IsQuery /\ resp.req.body.query = <<>> =>
        /\ resp.extensionId = FirstValue(FirstCriteria(resp.req.body), 4)
        /\ resp.searchQuery = FirstValue(FirstCriteria(resp.req.body), 10)

\* C4, amended: of several criteria with the same tag the last in list
\* order gives the value used.
C4_LastOccurrence ==
    IsQuery /\ resp.req.body.query = <<>> =>
        /\ resp.extensionId = LastValue(FirstCriteria(resp.req.body), 4)
        /\ resp.searchQuery = LastValue(FirstCriteria(resp.req.body), 10)
        /\ resp.written /\ resp.mode = "id" =>
              resp.extensions \subseteq {LastValue(FirstCriteria(resp.req.body), 4)}

\* Two identifier criteria with different values: the second was looked up.
C4_SecondIdUsed ==
    /\ IsQuery
    /\ FirstCriteria(resp.req.body) = <<ById_None, ById_X>>
    /\ resp.written
    /\ resp.extensions = {IdX}

-----------------------------------------------------------------------------
(* Properties: ingestion and download (C5, C6) *)

\* C5: re-ingesting an identifier replaces and never adds.  After any
\* sequence of ingestions and deletions the catalog holds at most one record
\* per id, and the record stored for a just-ingested id is, field for field,
\* the one that ingestion wrote, whatever was stored for the id before.
C5_ReplaceNeverAdd ==
    /\ \A r1 \in db, r2 \in db : r1.ID = r2.ID => r1 = r2
    /\ out.cmd = "download" /\ out.result = "ingested" =>
          /\ out.row \in db
          /\ \A row \in db : row.ID = out.row.ID => row = out.row
          /\ \A row \in db : row.ID # out.row.ID => row # out.prior

\* An id was ingested a second time, with other field values than the first.
C5_Reingested ==
    /\ out.cmd = "download"
    /\ out.result = "ingested"
    /\ out.prior # Nil
    /\ out.prior.Version # out.row.Version
    /\ out.prior.Description # out.row.Description
    /\ out.prior.ReadmeContent # out.row.ReadmeContent

\* The last two calls had the same ExtensionInfo and target directory and
\* the first of them succeeded.
CalledTwice ==
    /\ out.cmd = "fetch"
    /\ out.prev # Nil
    /\ out.prev.type = out.call.type
    /\ out.prev.info = out.call.info
    /\ out.prev.targetDir = out.call.targetDir
    /\ ~out.prev.err

\* C6: DownloadExtension is idempotent.  Called twice with the same
\* ExtensionInfo and target directory, the first call succeeding, the second
\* call makes no remote download, returns WasDownloaded = false and the
\* FilePath of the first call, and leaves the files on disk unchanged.
C6_DownloadIdempotent ==
    CalledTwice =>
        /\ ~out.call.err
        /\ out.call.gets = 0
        /\ out.prev.gets + out.call.gets <= 1
        /\ ~out.call.WasDownloaded
        /\ out.call.FilePath = out.prev.FilePath
        /\ vsix = out.before

\* A first call downloaded the package and a second call followed it.
C6_SecondCall ==
    /\ CalledTwice
    /\ out.prev.WasDownloaded
    /\ out.prev.gets = 1
    /\ out.call.type = "microsoft"

-----------------------------------------------------------------------------
(* Properties: assets and headers (C7 - C10) *)

IsAssetRequest ==
    /\ IsResponse
    /\ resp.req.route = RouteAsset
    /\ resp.req.method = "GET"

\* The record of the extension an asset request names, when there is one.
Requested == {row \in db : row.ID = ExtID(resp.req.publisher, resp.req.name)}

\* C7: an asset request for an extension in the catalog whose stored
\* version differs from the requested one gets a not-found response whose
\* body is the error envelope with status = 404, for every asset-type token,
\* known or not, and no asset bytes are served.
C7_VersionMismatch ==
    IsAssetRequest /\ (\E row \in Requested : row.Version # resp.req.version) =>
        /\ resp.written
        /\ resp.status = 404
        /\ resp.body = "envelope"
        /\ resp.envelopeStatus = 404
        /\ resp.served = ""
        /\ resp.zipOpens = 0

\* The package itself was requested under a version that is not the stored one.
C7_WrongVersionOfPackage ==
    /\ IsAssetRequest
    /\ \E row \in Requested : row.Version = <<"1">> /\ resp.req.version = <<"2">>
    /\ resp.req.assetType = TokenVSIXPackage
    /\ resp.status = 404
    /\ resp.message = "Version not found"

\* The table of the eight tokens: the handler each is dispatched to.
Dispatch ==
    [t \in {TokenManifest, TokenVSIXPackage, TokenVsixManifest, TokenVsixSignature,
            TokenPublicKey, TokenDetails, TokenLicense, TokenIcon} |->
        CASE t = TokenManifest -> "servePackageJSON"
          [] t = TokenVSIXPackage -> "serveVSIXFile"
          [] t = TokenVsixManifest -> "serveVSIXManifest"
          [] t = TokenVsixSignature -> "serveEmptySignature"
          [] t = TokenPublicKey -> "serveEmptyPublicKey"
          [] t = TokenDetails -> "serveREADME"
          [] t = TokenLicense -> "serveLICENSE"
          [] t = TokenIcon -> "serveIcon"]

\* C8: for an existing record with matching version, an asset-type token
\* outside the table of eight gets a 404 not-found response, and every token
\* of the table is dispatched to its handler and never gets the
\* "Asset type not supported" response.
C8_TokenDispatch ==
    IsAssetRequest /\ (\E row \in Requested : row.Version = resp.req.version) =>
        /\ resp.written
        /\ resp.req.assetType \notin DOMAIN Dispatch =>
              /\ resp.status = 404
              /\ resp.body = "envelope"
              /\ resp.envelopeStatus = 404
              /\ resp.served = ""
        /\ resp.req.assetType \in DOMAIN Dispatch =>
              /\ resp.served = Dispatch[resp.req.assetType]
              /\ resp.message # "Asset type not supported"
              /\ resp.body # "envelope"

\* An unknown token was requested for a stored record at its version.
C8_UnknownToken ==
    /\ IsAssetRequest
    /\ \E row \in Requested : row.Version = resp.req.version
    /\ resp.req.assetType \notin DOMAIN Dispatch
    /\ resp.status = 404
    /\ resp.message = "Asset type not supported"

\* C9: every response the server writes, on every route and for every
\* outcome (success, 400, 404 for an unmatched path, 405, served rewritten
\* asset), carries the CORS header set and the cache-suppressing headers.
C9_HeadersOnEveryResponse ==
    IsResponse /\ resp.written =>
        /\ resp.cors
        /\ resp.cacheControl = HTTPCacheControl
        /\ resp.pragma = HTTPPragma
        /\ resp.expires = HTTPExpires

\* C10: an OPTIONS request on any route gets an empty-body success response
\* and is answered before any handler logic: the catalog is not read, no
\* archive is opened, the route's handler is not reached.
C10_PreflightShortCircuits ==
    IsResponse /\ resp.req.method = "OPTIONS" =>
        /\ resp.written
        /\ resp.status \in {200, 204}
        /\ resp.body = "empty"
        /\ resp.dbReads = 0
        /\ resp.zipOpens = 0
        /\ resp.handler \notin RouteHandlers
        /\ resp.extensions = {}

\* OPTIONS was sent for the package of a stored extension at its version.
C10_PreflightOnStoredPackage ==
    /\ IsResponse
    /\ resp.req.method = "OPTIONS"
    /\ resp.req.route = RouteAsset
    /\ resp.req.assetType = TokenVSIXPackage
    /\ \E row \in Requested : row.Version = resp.req.version
    /\ resp.status = 204

-----------------------------------------------------------------------------
(* Applying ProcessReadme to one readme *)

DataURI == <<"d","a","t","a",":","x">>
Anchor == <<"#","a">>
RemoteImgB == <<"h","t","t","p",":","/","/","x","/","b","/","i","m","g",".","p","n","g">>
RemoteRoot == <<"h","t","t","p",":","/","/","x","/">>
RelativeImg == <<"a",".","p","n","g">>
UpperCaseDoc == <<"H","T","T","P",":","/","/","x","/","d",".","c","s","s">>

MaxRefs == 2

\* The references a readme of the model is made of.
Segments ==
    {Text(<<"h","i">>)}
      \cup {MdImage(<<"a">>, u) : u \in {DataURI, Anchor, RemoteImg, RemoteImgB,
                                      RemoteRoot, RelativeImg}}
      \cup {MdImage(<<>>, RemoteImg)}
      \cup {MdImage(<<"a">>, UpperCaseDoc)}
      \cup {MdLink(<<"t">>, u) : u \in {Anchor, UpperCaseDoc}}

Readmes == UNION {[1..n -> Segments] : n \in 0..MaxRefs}

\* The URLs upstream may answer with 200.
RemoteURLs == {RemoteImg, RemoteImgB, RemoteRoot, UpperCaseDoc}

\* One call of ProcessReadme, as runDownload makes it for the readme of the
\* package it ingests; out keeps the arguments and the result.
Rewrite(readme, extensionID, served) ==
    /\ out = NoOut
    /\ out' = [cmd |-> "readme", readme |-> readme, extensionID |-> extensionID,
               served |-> served,
               result |-> ProcessReadme(readme, extensionID, config, served)]
    /\ resp' = NoResp
    /\ UNCHANGED <<config, db, bulk, vsix, assets>>

\* The call is made once, on a system in which no command has run.
NextReadme ==
    /\ out = NoOut
    /\ \E readme \in Readmes, served \in SUBSET RemoteURLs :
          Rewrite(readme, IdX, served)

\* The rewriter reads nothing of the catalog: it is called on an empty one.
InitReadme == Init /\ bulk = 0

SpecReadme == InitReadme /\ [][NextReadme]_vars

-----------------------------------------------------------------------------
(* Properties: the asset rewriter (C11 - C14) *)

IsRewrite == out.cmd = "readme"

\* The references of a readme: the positions of its images and links.
Refs(readme) == {i \in 1..Len(readme) : readme[i].seg \in {"mdimg", "mdlink"}}

InPage(url) == HasPrefix(url, <<"d","a","t","a",":">>) \/ HasPrefix(url, <<"#">>)

\* C11: ProcessReadme is a no-op on a readme all of whose references are
\* data: URIs or in-page anchors: it returns its input unchanged, calls
\* client.Get for nothing and writes no asset file.
C11_NoOpOnInPageReferences ==
    IsRewrite /\ (\A i \in Refs(out.readme) : InPage(out.readme[i].url)) =>
        /\ out.result.content = out.readme
        /\ out.result.gets = {}
        /\ out.result.files = {}

\* A readme with a data: image, an anchor image or link and nothing else
\* was processed.
C11_OnlyInPage ==
    /\ IsRewrite
    /\ Len(out.readme) = 2
    /\ out.readme[1] = MdImage(<<"a">>, DataURI)
    /\ out.readme[2] = MdLink(<<"t">>, Anchor)
    /\ out.served = RemoteURLs

\* The fetch of the URL succeeds with status 200.
FetchSucceeds(url) == Fetchable(url) /\ url \in out.served

\* The directory ProcessReadme stores the assets of the extension in.
RewriterDir == Join(config.AssetsDir, out.extensionID)

\* C12: for every markdown image ![alt](U) of the readme with an absolute
\* http URL U whose fetch succeeds, the output contains
\* ![alt]({baseURL}/_assets/{extensionID}/{basename of U's path}), and a
\* file of that basename is in the extension's asset directory and holds the
\* bytes fetched from U; the pass over the other assets leaves the rewritten
\* reference as it is.
C12_ImageRewrittenAndStored ==
    IsRewrite =>
      \A i \in 1..Len(out.readme) :
        out.readme[i].seg = "mdimg" /\ FetchSucceeds(out.readme[i].url) =>
          /\ out.result.content[i] =
                MdImage(out.readme[i].alt,
                        LocalURL(config.BaseURL, out.extensionID,
                                 Base(URLPath(out.readme[i].url))))
          /\ Join(RewriterDir, Base(URLPath(out.readme[i].url))) \in out.result.files
          /\ out.result.holds[Join(RewriterDir, Base(URLPath(out.readme[i].url)))]
                = out.readme[i].url

\* The fetch of a reference fails: a transport error or a status other than 200.
FetchFails(i) == ~InPage(out.readme[i].url) /\ ~FetchSucceeds(out.readme[i].url)

\* What ProcessReadme makes of the reference at position i of the readme
\* when it is the only content.
Alone(i) == ProcessReadme(<<out.readme[i]>>, out.extensionID, config, out.served).content[1]

\* C13: a reference whose fetch fails is in the output as it was in the
\* input, every other reference is still rewritten as it is without the
\* failing one, and ProcessReadme returns without error.
C13_FailedFetchLeftAlone ==
    IsRewrite =>
        /\ ~out.result.err
        /\ Len(out.result.content) = Len(out.readme)
        /\ \A i \in Refs(out.readme) :
              /\ FetchFails(i) => out.result.content[i] = out.readme[i]
              /\ ~FetchFails(i) => out.result.content[i] = Alone(i)

\* An image whose fetch failed came before an image whose fetch succeeded,
\* and the second was rewritten.
C13_OneFailedOneRewritten ==
    /\ IsRewrite
    /\ Len(out.readme) = 2
    /\ out.readme[1] = MdImage(<<"a">>, RemoteImgB)
    /\ out.readme[2] = MdImage(<<"a">>, RemoteImg)
    /\ out.served = {RemoteImg}
    /\ out.result.content[2] = MdImage(<<"a">>, LocalURL(config.BaseURL, IdX, <<"i","m","g",".","p","n","g">>))
    /\ out.result.files = {Join(RewriterDir, <<"i","m","g",".","p","n","g">>)}

\* C14: a file the rewriter persisted for an extension is retrievable from
\* the server: GET /_assets/{extension}/{file} looks where the rewriter
\* wrote and returns the file, not "Asset not found", whatever the
\* configured extensions and assets directories are.
C14_RewrittenAssetRetrievable ==
    /\ IsResponse
    /\ resp.req.route = RouteExtensionAssets
    /\ resp.req.method = "GET"
    /\ Join(Join(config.AssetsDir, resp.req.extensionID), resp.req.filename) \in assets
    => /\ resp.status = 200
       /\ resp.body = "file"
       /\ resp.message # "Asset not found"

-----------------------------------------------------------------------------
(* Ingesting the packages upstream holds *)

IngestIds == CommandIds \cup {ExtID(Listing(k).publisher, Listing(k).name) : k \in AllPkgKeys}

\* littlevsx download for any extension upstream holds.
DownloadAny ==
    \E type \in MarketplaceTypes, id \in IngestIds,
       outcome \in CommandOutcomes, served \in SUBSET {RemoteImg} :
         RunDownload(type, id, outcome, served)

NextIngest == DownloadAny

SpecIngest == Init /\ [][NextIngest]_vars

-----------------------------------------------------------------------------
(* Properties: reading a package (C15 - C17) *)

IsIngested == out.cmd = "download" /\ out.result = "ingested"

\* The manifest as the archive holds it: the content of its first
\* extension/package.json entry, if it has one.
HasManifest(key) == \E i \in 1..Len(Archive(key)) : Archive(key)[i].name = packageJSONPath

ManifestOf(key) ==
    Archive(key)[CHOOSE i \in 1..Len(Archive(key)) :
                    /\ Archive(key)[i].name = packageJSONPath
                    /\ \A j \in 1..(i - 1) : Archive(key)[j].name # packageJSONPath].body

\* The archive stored at a path of the package directory.
StoredAt(disk, path) == (CHOOSE f \in disk : f.path = path).data

\* C15: the record read from an archive whose manifest parses has as ID the
\* manifest's publisher, one ".", and the manifest's name, with no letter
\* folded and nothing trimmed, and the record is stored under that key.
C15_IdIsPublisherDotName ==
    IsIngested =>
        /\ out.row.ID = ManifestOf(StoredAt(vsix, out.row.FilePath)).Publisher
                          \o <<".">>
                          \o ManifestOf(StoredAt(vsix, out.row.FilePath)).Name
        /\ GetExtensionByID(db, out.row.ID) = out.row
        /\ \A row \in db : row.ID = row.Publisher \o <<".">> \o row.Name

\* A package whose publisher and name have upper-case letters was ingested.
C15_UpperCaseIngested ==
    /\ IsIngested
    /\ StoredAt(vsix, out.row.FilePath) = "Z1"
    /\ out.row.ID = <<"P",".","Z">>
    /\ out.row \in db

\* The manifest entry is missing from the archive or does not parse.
ManifestBroken(key) == ~HasManifest(key) \/ ~ManifestOf(key).parses

\* C16: when the package a download command has just fetched has no
\* extension/package.json or one that does not parse, ReadExtensionInfo
\* returns an error and the command aborts without upserting: the catalog
\* after the step is the catalog before it.
C16_BrokenManifestAborts ==
    [][
        /\ \A f \in vsix' :
             f.data \in AllPkgKeys /\ ManifestBroken(f.data) =>
                 /\ ReadExtensionInfo(vsix', f.path).err
                 /\ f \notin vsix => out'.result = "read error"
        /\ out'.result = "read error" => db' = db
        /\ out'.result = "ingested" =>
               ~ManifestBroken(StoredAt(vsix', out'.row.FilePath))
    ]_vars

\* A package whose manifest does not parse was fetched while the catalog
\* held records, and the command stopped at reading it.
C16_UnparsableFetched ==
    /\ out.cmd = "download"
    /\ out.result = "read error"
    /\ db # {}
    /\ \E f \in vsix : f.data = "B2"

\* The localization table of an archive: the pairs of its first
\* extension/package.nls.json entry, none if it has no such entry.
TableOf(key) ==
    IF \E i \in 1..Len(Archive(key)) : Archive(key)[i].name = packageNLSPath
    THEN Archive(key)[CHOOSE i \in 1..Len(Archive(key)) :
                         /\ Archive(key)[i].name = packageNLSPath
                         /\ \A j \in 1..(i - 1) : Archive(key)[j].name # packageNLSPath].body
    ELSE <<>>

\* The messages the table has for a key.
Messages(key, k) ==
    {TableOf(key)[i].value : i \in {j \in 1..Len(TableOf(key)) : TableOf(key)[j].key = k}}

IsPlaceholder(field) ==
    Len(field) > 2 /\ field[1] = "%" /\ field[Len(field)] = "%"

\* The key of a placeholder: the text between its percent signs.
KeyOf(field) == SubSeq(field, 2, Len(field) - 1)

\* What the claim says of one field: the field of the manifest, the field
\* of the record read from it.
Localized(key, inManifest, inRecord) ==
    /\ IsPlaceholder(inManifest) /\ Messages(key, KeyOf(inManifest)) # {} =>
          inRecord \in Messages(key, KeyOf(inManifest))
    /\ IsPlaceholder(inManifest) /\ Messages(key, KeyOf(inManifest)) = {} =>
          inRecord = inManifest
    /\ ~Contains(inManifest, <<"%">>) => inRecord = inManifest

\* C17: in the record read from an archive, a displayName or description
\* that is a %key% placeholder is the table's message for the key when the
\* table has one and is left as in the manifest when it has none, and a
\* field without a placeholder is as in the manifest.
C17_LocalizationSubstitution ==
    IsIngested =>
        /\ Localized(StoredAt(vsix, out.row.FilePath),
                     ManifestOf(StoredAt(vsix, out.row.FilePath)).DisplayName,
                     out.row.DisplayName)
        /\ Localized(StoredAt(vsix, out.row.FilePath),
                     ManifestOf(StoredAt(vsix, out.row.FilePath)).Description,
                     out.row.Description)

-----------------------------------------------------------------------------
(* Querying a catalog of any of the packages upstream holds *)

\* The extensions the catalog is filled with: one whose record has a readme,
\* a license and an icon in one version and none of them in the next, and
\* one whose record has a description and nothing else.
CatalogIds == {IdX, ExtID(Listing("L1").publisher, Listing("L1").name)}

DownloadCatalog ==
    \E type \in MarketplaceTypes, id \in CatalogIds,
       outcome \in CommandOutcomes, served \in SUBSET {RemoteImg} :
         RunDownload(type, id, outcome, served)

NextCatalog ==
    \/ DownloadCatalog
    \/ HandleExtensionQuery

SpecCatalog == Init /\ [][NextCatalog]_vars

-----------------------------------------------------------------------------
(* Properties: the query response and the error responses (C18 - C20) *)

\* The last step answered a query with a result list.
IsResults == IsResponse /\ resp.written /\ resp.body = "results"

\* The record an extension object was built from.
RecordOf(object) == CHOOSE row \in db : row.ID = object.extensionId

\* The asset types of the files list of an object's version.
AssetTypes(object) ==
    {object.versions[1].files[i].assetType : i \in 1..Len(object.versions[1].files)}

Unconditional ==
    {"Microsoft.VisualStudio.Code.Manifest",
     "Microsoft.VisualStudio.Services.VSIXPackage",
     "Microsoft.VisualStudio.Services.VsixManifest",
     "Microsoft.VisualStudio.Services.VsixSignature",
     "Microsoft.VisualStudio.Services.PublicKey"}

\* C18: in every extension object of a query response the files list has
\* the Content.Details entry only if the record has readme content, the
\* Content.License entry only if the record has a license, the Icons.Default
\* entry only if the record declares an icon, and a record with none of the
\* three has exactly the five unconditional entries.
C18_ConditionalFileEntries ==
    IsResults =>
        \A object \in resp.objects :
            /\ "Microsoft.VisualStudio.Services.Content.Details" \in AssetTypes(object) =>
                  RecordOf(object).ReadmeContent # <<>>
            /\ "Microsoft.VisualStudio.Services.Content.License" \in AssetTypes(object) =>
                  RecordOf(object).License # <<>>
            /\ "Microsoft.VisualStudio.Services.Icons.Default" \in AssetTypes(object) =>
                  RecordOf(object).Icon # <<>>
            /\ (/\ RecordOf(object).ReadmeContent = <<>>
                /\ RecordOf(object).License = <<>>
                /\ RecordOf(object).Icon = <<>>) =>
                  /\ Len(object.versions[1].files) = 5
                  /\ AssetTypes(object) = Unconditional

\* The records of the catalog that the resolution step of the answered
\* query matches: the one with the identifier, those the search pattern
\* matches, or all of them.
MatchedNamed ==
    CASE resp.mode = "id" -> {row \in db : row.ID = resp.extensionId}
      [] resp.mode = "search" -> {row \in db : SearchMatches(row, resp.searchQuery)}
      [] OTHER -> db

MatchedCount ==
    Cardinality(MatchedNamed) + (IF resp.mode = "all" THEN bulk ELSE 0)

\* The most records the resolution step asks the storage for.
ResolutionLimit ==
    CASE resp.mode = "id" -> 1
      [] resp.mode = "search" -> maxSearchLimit
      [] OTHER -> maxExtensionsLimit

\* The extension objects of the response, the named and the others.
ObjectCount == Cardinality(resp.objects) + resp.others

\* C19 as stated: in every query response TotalCount is the number of
\* extension objects, which is the number of records the resolution step
\* matched in the catalog, and every object has exactly one version entry.
C19_CountIsMatched ==
    IsResults =>
        /\ resp.totalCount = ObjectCount
        /\ ObjectCount = MatchedCount
        /\ \A object \in resp.objects : Len(object.versions) = 1

\* C19, amended: TotalCount is the number of extension objects, one for each
\* record the resolution step returned: the matched records, all of them up
\* to the limit of the step and that many when more match; every object is
\* built from a matched record and has exactly one version entry.
C19_CountIsReturned ==
    IsResults =>
        /\ resp.totalCount = ObjectCount
        /\ ObjectCount = Min(MatchedCount, ResolutionLimit)
        /\ Cardinality({object.extensionId : object \in resp.objects}) = Cardinality(resp.objects)
        /\ \A object \in resp.objects :
              /\ object.extensionId \in Ids(MatchedNamed)
              /\ Len(object.versions) = 1
              /\ object.versions[1].version = RecordOf(object).Version

\* A listing of a catalog above the limit was answered with objects of
\* named records, cut at the limit.
C19_ListingCutAtLimit ==
    /\ IsResults
    /\ resp.mode = "all"
    /\ MatchedCount > ResolutionLimit
    /\ ObjectCount = ResolutionLimit
    /\ resp.objects # {}

\* The request was a POST to the query route with a body that does not decode.
IsUndecodable ==
    /\ IsResponse
    /\ resp.req.route = RouteQuery
    /\ resp.req.method = "POST"
    /\ ~resp.req.body.json

\* C20: a query whose body cannot be decoded is answered 400 and never with
\* a result list, and every response with status 400, 404 or 405 carries
\* the envelope {error, message, status} whose status is the status written.
C20_ErrorEnvelope ==
    /\ IsUndecodable =>
          /\ resp.written
          /\ resp.status = 400
          /\ resp.body # "results"
          /\ resp.objects = {} /\ resp.extensions = {} /\ resp.totalCount = 0
    /\ IsResponse /\ resp.status \in {400, 404, 405} =>
          /\ resp.body = "envelope"
          /\ resp.message # ""
          /\ resp.envelopeStatus = resp.status

\* A body that does not decode was answered with the bad-request envelope
\* while the catalog held records.
C20_MalformedRejected ==
    /\ IsUndecodable
    /\ resp.status = 400
    /\ resp.body = "envelope"
    /\ db # {}

-----------------------------------------------------------------------------
(* Downloading with the answers upstream can give to the lookup *)

\* The answers of the model: a transport failure, and answers with status
\* 200 or 500 that list nothing, one package with its download link, one
\* package without a link, or one extension without versions.
Answers ==
    {Answer(TRUE, 0, <<>>)}
      \cup {Answer(FALSE, status, extensions) :
               status \in {200, 500},
               extensions \in {<<>>, <<Hit("X1", "")>>,
                               <<[Hit("X1", "X1") EXCEPT !.versions = 0]>>}
                                 \cup {<<Hit(key, key)>> : key \in PkgKeys}}

DownloadAnswered ==
    \E type \in MarketplaceTypes, answer \in Answers,
       outcome \in CommandOutcomes, served \in SUBSET {RemoteImg} :
         RunDownloadAnswered(type, answer, outcome, served)

NextResolve == DownloadAnswered

SpecResolve == Init /\ [][NextResolve]_vars

-----------------------------------------------------------------------------
(* Properties: resolution failures (C21) *)

\* The cases of the claim: the request fails, the status is not 200, the
\* answer lists no extension, or it has no download entry.
LookupFails(answer) ==
    \/ answer.fails
    \/ answer.status # 200
    \/ Len(answer.extensions) = 0
    \/ answer.extensions[1].download = ""

\* C21: for both providers the lookup returns an error and no ExtensionInfo
\* when the request fails, the status is not 200, the answer lists no
\* extension or has no download entry, and a download command whose lookup
\* got such an answer stops there: the package directory, the catalog and
\* the asset directory stay as they were.
C21_LookupFailureStopsDownload ==
    [][
        \A type \in MarketplaceTypes, answer \in {a \in Answers : LookupFails(a)} :
            /\ ResolveByID(type, answer).err # ""
            /\ ResolveByID(type, answer).info = Nil
            /\ \A outcome \in CommandOutcomes, served \in SUBSET {RemoteImg} :
                  RunDownloadAnswered(type, answer, outcome, served) =>
                      /\ out'.result = "info error"
                      /\ vsix' = vsix /\ db' = db /\ assets' = assets
    ]_vars

\* A lookup failed for a command run on a system that already holds a
\* package and its record.
C21_LookupFailedAfterIngestion ==
    /\ out.cmd = "download"
    /\ out.result = "info error"
    /\ vsix # {}
    /\ db # {}

-----------------------------------------------------------------------------
(* Properties: retries (C22) *)

\* How often client.Get was called with the URL during the run.
TimesFetched(url) ==
    Cardinality({k \in 1..Len(out.result.fetches) : out.result.fetches[k] = url})

\* The references of the readme that carry the URL.
ReferencesTo(url) == {i \in Refs(out.readme) : out.readme[i].url = url}

\* C22: no failed network call is made again.  Within one run of
\* ProcessReadme a URL whose fetch fails is requested at most once for each
\* reference that carries it, not a second time by a later pattern or pass;
\* and one call of DownloadExtension makes at most one request for the
\* package.
C22_NoRetry ==
    IsRewrite =>
        /\ \A i \in Refs(out.readme) :
              FetchFails(i) =>
                  TimesFetched(out.readme[i].url)
                      <= Cardinality(ReferencesTo(out.readme[i].url))
        /\ \A type \in MarketplaceTypes, key \in PkgKeys, outcome \in DownloadOutcomes :
              \A disk \in {{}, {[path |-> VsixPath(GetExtensionInfoByID(type, key),
                                                   config.ExtensionsDir),
                                data |-> key]}} :
                 DownloadExtension(type, disk, GetExtensionInfoByID(type, key),
                                   config.ExtensionsDir, outcome).gets <= 1

-----------------------------------------------------------------------------
(* Two download commands for one identifier, run at the same time *)

Procs == {1, 2}

\* A command at one of the points of runDownload between which the other
\* command can run: before the lookup, before DownloadExtension, before
\* ReadExtensionInfo, before UpsertExtension, and returned.
Proc(pc, type, info, path, ext) ==
    [pc |-> pc, type |-> type, info |-> info, path |-> path, ext |-> ext]

IsRace == out.cmd = "race"

\* The two commands start; `upserts` lists the commands in the order of
\* their upserts.
Launch ==
    /\ out = NoOut
    /\ out' = [cmd |-> "race",
               procs |-> [p \in Procs |-> Proc("lookup", "", Nil, <<>>, Nil)],
               upserts |-> <<>>]
    /\ resp' = NoResp
    /\ UNCHANGED <<config, db, bulk, vsix, assets>>

At(p, pc) == IsRace /\ out.procs[p].pc = pc

Becomes(p, proc) == out' = [out EXCEPT !.procs[p] = proc]

\* mp.GetExtensionInfoByID(extensionID)
RaceLookup(p, type, key) ==
    /\ At(p, "lookup")
    /\ Becomes(p, Proc("download", type, GetExtensionInfoByID(type, key), <<>>, Nil))
    /\ UNCHANGED <<config, db, bulk, vsix, assets, resp>>

\* mp.DownloadExtension(info, config.ExtensionsDir), and the GetByID of the
\* branch for a file that is already there.
RaceDownload(p, outcome) ==
    /\ At(p, "download")
    /\ \E result \in {DownloadExtension(out.procs[p].type, vsix, out.procs[p].info,
                                        config.ExtensionsDir, outcome)} :
       \E existing \in {GetByID(db, out.procs[p].info.ID)} :
         /\ vsix' = result.disk
         /\ Becomes(p, [out.procs[p] EXCEPT
                          !.path = result.FilePath,
                          !.pc = IF result.err THEN "error"
                                 ELSE IF result.WasDownloaded THEN "read"
                                 ELSE IF existing.panic THEN "panic"
                                 ELSE IF existing.found THEN "returned"
                                 ELSE "read"])
    /\ UNCHANGED <<config, db, bulk, assets, resp>>

\* extManager.ReadExtensionInfo, ProcessReadme and database.ToDBExtension
RaceRead(p, served) ==
    /\ At(p, "read")
    /\ \E read \in {ReadExtensionInfo(vsix, out.procs[p].path)} :
         IF read.err
         THEN /\ Becomes(p, [out.procs[p] EXCEPT !.pc = "error"])
              /\ UNCHANGED assets
         ELSE \E processed \in {ProcessReadme(read.ext.ReadmeContent, read.ext.ID,
                                              config, served)} :
                /\ assets' = assets \cup processed.files
                /\ Becomes(p, [out.procs[p] EXCEPT
                                 !.pc = "upsert",
                                 !.ext = ToDBExtension([read.ext EXCEPT
                                             !.ReadmeContent = processed.content])])
    /\ UNCHANGED <<config, db, bulk, vsix, resp>>

\* extManager.GetDB().UpsertExtension(dbExt): one statement
RaceUpsert(p) ==
    /\ At(p, "upsert")
    /\ db' = UpsertExtension(db, out.procs[p].ext)
    /\ out' = [out EXCEPT !.procs[p].pc = "returned", !.upserts = Append(@, p)]
    /\ UNCHANGED <<config, bulk, vsix, assets, resp>>

Lookup == \E p \in Procs, type \in MarketplaceTypes, key \in UpstreamKeys(IdX) :
             RaceLookup(p, type, key)
DownloadStep == \E p \in Procs, outcome \in CommandOutcomes : RaceDownload(p, outcome)
ReadStep == \E p \in Procs, served \in SUBSET {RemoteImg} : RaceRead(p, served)
UpsertStep == \E p \in Procs : RaceUpsert(p)

NextRace ==
    \/ Launch
    \/ Lookup
    \/ DownloadStep
    \/ ReadStep
    \/ UpsertStep

SpecRace == Init /\ [][NextRace]_vars

-----------------------------------------------------------------------------
(* Properties: concurrent ingestions (C23) *)

\* The command whose upsert ran last.
LastWriter == out.upserts[Len(out.upserts)]

\* C23: when two ingestions of one identifier run at the same time, then in
\* every interleaving the catalog holds, from the first upsert on, exactly
\* one record for the identifier, and all its fields are those of the
\* ingestion whose upsert ran last: never a mixture of the two.
C23_LastWriterWins ==
    IsRace /\ out.upserts # <<>> =>
        /\ {row \in db : row.ID = IdX} = {out.procs[LastWriter].ext}
        /\ Cardinality({row \in db : row.ID = IdX}) = 1

\* Both commands returned after an upsert each, of records that differ.
C23_BothUpserted ==
    /\ IsRace
    /\ Len(out.upserts) = 2
    /\ \A p \in Procs : out.procs[p].pc = "returned"
    /\ out.procs[1].ext # out.procs[2].ext
    /\ out.procs[1].ext.Version # out.procs[2].ext.Version

-----------------------------------------------------------------------------
(* Properties: availability after a download (C24) *)

\* The record with the identifier is in the catalog the server reads, and
\* the identifier query and the latest lookup for it return it.
Available(s, id) ==
    \E row \in s.db :
        /\ row.ID = id
        /\ \A w \in handleExtensionQuery(
                        NewWriter(QueryRequest("POST", Body(<<>>, <<Filter(<<Criterion(4, id)>>)>>))),
                        QueryRequest("POST", Body(<<>>, <<Filter(<<Criterion(4, id)>>)>>)), s) :
              w.written /\ w.status = 200 /\ w.extensions = {id}
        /\ handleVSCodeExtension(NewWriter(GalleryRequest("GET", row.Publisher, row.Name)),
                                 GalleryRequest("GET", row.Publisher, row.Name), s).status = 200
        /\ handleVSCodeExtension(NewWriter(GalleryRequest("GET", row.Publisher, row.Name)),
                                 GalleryRequest("GET", row.Publisher, row.Name), s).extensions = {id}

\* The package is already in the package directory under the name the
\* provider gives it, whichever version upstream answers with.
FilePresent(type, id) ==
    /\ UpstreamKeys(id) # {}
    /\ \A key \in UpstreamKeys(id) :
          FileExists(vsix, VsixPath(GetExtensionInfoByID(type, key), config.ExtensionsDir))

\* C24: a download command that returns success leaves a record for the
\* extension in the catalog, and the identifier query and the latest lookup
\* for it return the record; and the command does so on each of its three
\* paths: after a new download, with the file already present and no
\* record, with the file and the record already present.
C24_AvailableAfterDownload ==
    [][
        \A type \in MarketplaceTypes, id \in CommandIds,
           outcome \in CommandOutcomes, served \in SUBSET {RemoteImg} :
            RunDownload(type, id, outcome, served) =>
                /\ out'.result \in {"ingested", "already in database"} =>
                      Available(Sys', id)
                /\ FilePresent(type, id) =>
                      out'.result \in {"ingested", "already in database"}
    ]_vars

-----------------------------------------------------------------------------
(* Properties: the delete command (C25) *)

\* The files under the directory the rewriter stores an extension's assets in.
AssetsOf(files, id) ==
    {f \in files : HasPrefix(f, Join(config.AssetsDir, id) \o <<"/">>)}

\* C25: a delete that succeeds leaves no record with the identifier, no
\* file at the record's FilePath and nothing in the extension's asset
\* directory; the records, package files and assets of every other
\* identifier are as before; and a delete that is not confirmed changes
\* nothing.
C25_DeleteRemovesOnlyTheExtension ==
    [][
        \A id \in CommandIds, confirmed \in BOOLEAN :
            RunDelete(id, confirmed) =>
                /\ out'.result = "deleted" =>
                      /\ ~\E row \in db' : row.ID = id
                      /\ ~FileExists(vsix', out'.prior.FilePath)
                      /\ AssetsOf(assets', id) = {}
                      /\ {row \in db' : row.ID # id} = {row \in db : row.ID # id}
                      /\ vsix' = {f \in vsix : f.path # out'.prior.FilePath}
                      /\ \A row \in db : row.ID # id =>
                            /\ row.FilePath # out'.prior.FilePath
                            /\ AssetsOf(assets', row.ID) = AssetsOf(assets, row.ID)
                      /\ assets' = assets \ AssetsOf(assets, id)
                /\ ~confirmed =>
                      db' = db /\ vsix' = vsix /\ assets' = assets
    ]_vars

\* One extension was deleted, with its package file and its assets, while
\* another stays in the catalog with its own.
C25_DeletedBesideAnother ==
    /\ out.cmd = "delete" /\ out.result = "deleted"
    /\ out.prior # Nil
    /\ \E row \in db : FileExists(vsix, row.FilePath) /\ AssetsOf(assets, row.ID) # {}

\* The prompt was answered with something other than y or Y for an
\* extension that is in the catalog.
C25_Cancelled ==
    /\ out.cmd = "delete" /\ out.result = "cancelled"
    /\ db # {} /\ vsix # {} /\ assets # {}

-----------------------------------------------------------------------------
(* Properties: requests only read (C26) *)

\* C26: handling an HTTP request, whatever its route, method and outcome,
\* changes neither the catalog nor any package file nor any asset file
\* (the steps that leave a response are the requests; a command leaves none).
C26_RequestsOnlyRead ==
    [][
        resp' # NoResp =>
            db' = db /\ bulk' = bulk /\ vsix' = vsix /\ assets' = assets
    ]_vars

\* A request was answered from a catalog with a package and assets on disk,
\* with content read from the package.
C26_ServedFromDisk ==
    /\ resp # NoResp
    /\ resp.status = 200
    /\ resp.req.route = RouteAsset
    /\ db # {} /\ vsix # {} /\ assets # {}

-----------------------------------------------------------------------------
(* The delete command step by step, with calls that may fail and requests
   served meanwhile *)

\* Manager.DeleteExtension has reached the named call for the record ext.
Deleting(call, ext) == Outcome("deleting", call, Nil, ext)

IsDeleting(call) == out.cmd = "deleting" /\ out.result = call

\* runDelete up to the confirmation, and Manager.DeleteExtension's GetByID.
DeleteBegin(id, confirmed) ==
    /\ out.cmd # "deleting"
    /\ resp' = NoResp
    /\ UNCHANGED <<config, db, bulk, vsix, assets>>
    /\ \E existing \in {GetByID(db, id)} :
         IF existing.panic
         THEN out' = Outcome("delete", "panic", Nil, Nil)
         ELSE IF ~existing.found
         THEN out' = Outcome("delete", "not found", Nil, Nil)
         ELSE IF ~confirmed
         THEN out' = Outcome("delete", "cancelled", Nil, Nil)
         ELSE out' = Deleting("deleteVSIXFile", existing.ext)

\* m.deleteVSIXFile(ext.FilePath): os.Remove removes the file or fails.
DeleteFile(fails) ==
    /\ IsDeleting("deleteVSIXFile")
    /\ resp' = NoResp
    /\ UNCHANGED <<config, db, bulk, assets>>
    /\ IF fails /\ FileExists(vsix, out.prior.FilePath)
       THEN /\ out' = Outcome("delete", "delete error", Nil, out.prior)
            /\ UNCHANGED vsix
       ELSE /\ out' = Deleting("deleteAssetsFolder", out.prior)
            /\ vsix' = deleteVSIXFile(vsix, out.prior.FilePath)

\* m.deleteAssetsFolder(ext.ID): os.RemoveAll removes the directory or fails.
DeleteAssets(fails) ==
    /\ IsDeleting("deleteAssetsFolder")
    /\ resp' = NoResp
    /\ UNCHANGED <<config, db, bulk, vsix>>
    /\ IF fails /\ deleteAssetsFolder(assets, config, out.prior.ID) # assets
       THEN /\ out' = Outcome("delete", "delete error", Nil, out.prior)
            /\ UNCHANGED assets
       ELSE /\ out' = Deleting("db.DeleteExtension", out.prior)
            /\ assets' = deleteAssetsFolder(assets, config, out.prior.ID)

\* m.db.DeleteExtension(id): the DELETE statement runs or fails.
DeleteRow(fails) ==
    /\ IsDeleting("db.DeleteExtension")
    /\ resp' = NoResp
    /\ UNCHANGED <<config, bulk, vsix, assets>>
    /\ IF fails
       THEN /\ out' = Outcome("delete", "delete error", Nil, out.prior)
            /\ UNCHANGED db
       ELSE /\ out' = Outcome("delete", "deleted", Nil, out.prior)
            /\ db' = DeleteExtensionRow(db, out.prior.ID)

\* The requests served while the command runs: the package of each version
\* of p.x and the latest lookup.
Observers ==
    {AssetRequest("GET", <<"p">>, <<"x">>, v, TokenVSIXPackage) : v \in {<<"1">>, <<"2">>}}
      \cup {GalleryRequest("GET", <<"p">>, <<"x">>)}

\* The server, a process of its own, answers a request between two steps
\* of the command.
Observe(r) ==
    /\ resp' \in ServeHTTP(r, Sys)
    /\ UNCHANGED <<config, db, bulk, vsix, assets, out>>

DownloadIdle == out.cmd # "deleting" /\ Download
BeginDelete == \E id \in CommandIds, confirmed \in BOOLEAN : DeleteBegin(id, confirmed)
FileStep == \E fails \in BOOLEAN : DeleteFile(fails)
AssetsStep == \E fails \in BOOLEAN : DeleteAssets(fails)
RowStep == \E fails \in BOOLEAN : DeleteRow(fails)
ObserveStep == \E r \in Observers : Observe(r)

NextDelete ==
    \/ DownloadIdle
    \/ BeginDelete
    \/ FileStep
    \/ AssetsStep
    \/ RowStep
    \/ ObserveStep

SpecDelete == Init /\ [][NextDelete]_vars

-----------------------------------------------------------------------------
(* Properties: records and their package files (C27) *)

\* C27: in every state every record's FilePath names a file that exists;
\* so a delete that ended in an error has not left a record without its
\* file, and no GET of the package of a record in the catalog is answered
\* as not found.
C27_RecordsHaveFiles ==
    /\ \A row \in db : FileExists(vsix, row.FilePath)
    /\ /\ resp # NoResp /\ resp.req.route = RouteAsset
       /\ resp.req.method = "GET" /\ resp.req.assetType = TokenVSIXPackage
       =>
          \A row \in db :
              /\ row.Publisher = resp.req.publisher
              /\ row.Name = resp.req.name
              /\ row.Version = resp.req.version
              => resp.status = 200

-----------------------------------------------------------------------------
(* Properties: a failed package download (C28) *)

\* C28: a DownloadExtension call that returns an error leaves no file at
\* {targetDir}/{name}-{version}.vsix, so that the next call for the same
\* path, when it succeeds, has downloaded the package (WasDownloaded true).
C28_FailedDownloadLeavesNoFile ==
    out.cmd = "fetch" =>
        /\ out.call.err =>
              ~FileExists(vsix, VsixPath(out.call.info, out.call.targetDir))
        /\ /\ out.prev # Nil
           /\ out.prev.err
           /\ VsixPath(out.prev.info, out.prev.targetDir)
                = VsixPath(out.call.info, out.call.targetDir)
           /\ ~out.call.err
           => out.call.WasDownloaded

-----------------------------------------------------------------------------
(* Properties: which entry is the readme (C29) *)

HasReadmeEntry(key) == \E i \in 1..Len(Archive(key)) : Archive(key)[i].name = readmePath

\* The content of the archive's extension/README.md.
ReadmeEntry(key) ==
    Archive(key)[CHOOSE i \in 1..Len(Archive(key)) :
                    /\ Archive(key)[i].name = readmePath
                    /\ \A j \in 1..(i - 1) : Archive(key)[j].name # readmePath].body

\* C29: when the archive has an entry extension/README.md, the readme of
\* the record read from it is that entry's content (in the catalog: that
\* content with its references rewritten), whatever other entries with
\* "readme" in their names the archive has and wherever they are.
C29_ConventionalReadmeWins ==
    IsIngested /\ HasReadmeEntry(StoredAt(vsix, out.row.FilePath)) =>
        /\ readReadmeFromVSIX(vsix, out.row.FilePath)
             = ReadmeEntry(StoredAt(vsix, out.row.FilePath))
        /\ \E served \in SUBSET {RemoteImg} :
              out.row.ReadmeContent
                = ProcessReadme(ReadmeEntry(StoredAt(vsix, out.row.FilePath)),
                                out.row.ID, config, served).content

-----------------------------------------------------------------------------
(* Properties: one local name per remote URL (C30) *)

\* The reference at position i was fetched with success and rewritten.
Stored(i) ==
    /\ FetchSucceeds(out.readme[i].url)
    /\ out.result.content[i] # out.readme[i]

\* C30: two references of one readme with different remote URLs, both
\* fetched with success, are stored under different file names and
\* rewritten to different local URLs: neither overwrites the other.
C30_DistinctLocalNames ==
    IsRewrite =>
        \A i \in Refs(out.readme) : \A j \in Refs(out.readme) :
            /\ out.readme[i].url # out.readme[j].url
            /\ Stored(i)
            /\ Stored(j)
            => /\ generateFileName(out.readme[i].url) # generateFileName(out.readme[j].url)
               /\ out.result.content[i].url # out.result.content[j].url

=============================================================================
